---- MODULE Spec2Model ----
(***************************************************************************)
(* A model of ui69: the controlled/uncontrolled state handling of the      *)
(* interactive components (Checkbox, Switch, RadioGroup, Select,           *)
(* AlertDialog, Drawer, Accordion) and the command line installer          *)
(* (src/cli/index.js).                                                     *)
(*                                                                         *)
(* An optional JavaScript value is a sequence: <<>> is `undefined` and     *)
(* <<v>> is the value v.  A component instance is its current props, its   *)
(* React state (the useState cells) and the effects of the last handler    *)
(* that ran: the state setters it called and the callbacks it invoked, in  *)
(* call order.  A press is a discrete event: its handler runs on the props *)
(* and state of the last render and the state it sets is committed before  *)
(* the next event.                                                         *)
(***************************************************************************)
EXTENDS Integers, Sequences, FiniteSets, TLC

\* ------------------------------------------------------------------------
\* Bounds
\* ------------------------------------------------------------------------

\* user presses followed on one mounted component
MaxPresses == 3

\* times the user may press Enter on an empty multi-select
MaxEmptyConfirms == 1

\* toasts created by one provider
MaxAdds == 2

\* pans delivered to one drawer; pans and close presses delivered to the toasts
\* of one provider
MaxGestures == 1

\* the clock is followed up to this time, in milliseconds
MaxTime == 2000

\* ------------------------------------------------------------------------
\* Optional values and handler effects
\* ------------------------------------------------------------------------

Undefined == <<>>

Some(v) == <<v>>

Opt(S) == {Undefined} \cup {Some(v) : v \in S}

\* a call of a useState setter made by a handler
SetState(setter, v) == [kind |-> "set", name |-> setter, args |-> <<v>>]

\* an invocation of a callback prop made by a handler
Call(cb, argv) == [kind |-> "call", name |-> cb, args |-> argv]

\* `cond && effect`: the effect happens only when cond holds
When(cond, e) == IF cond THEN <<e>> ELSE <<>>

Named(effs, n) == SelectSeq(effs, LAMBDA e : e.name = n)

Setters(effs) == SelectSeq(effs, LAMBDA e : e.kind = "set")

\* item values of the children of a RadioGroup, a Select or an Accordion
Values == {"a", "b"}

VARIABLES
    mounted,         \* the component instance under observation
    props,           \* the props of its last render
    state,           \* its useState cells
    effects,         \* setter calls and callback invocations of the last handler
    presses,         \* number of user actions delivered since mount
    lastPress,       \* the part the user pressed last, none after a re-render
    plainSinceMount, \* every render so far was uncontrolled and interactive
    pc,              \* the installer's position in src/cli/index.js
    argv,            \* process.argv.slice(2)
    exitCode,        \* the exit code once the process has ended
    inquirer,        \* require.resolve('inquirer') succeeds
    componentDir,    \* COMPONENT_DIR exists
    srcFiles,        \* the component sources present under COMPONENT_DIR
    tsDeps,          \* the project's package manifest lists TypeScript
    files0,          \* the working directory as the run found it
    files,           \* the files of the working directory, path -> contents
    destDir,         \* components/ui exists in the working directory
    selectedComponents, \* what selectComponents returned to main
    queue,           \* the components main still has to install
    ret,             \* where initializeProject returns to
    emptyConfirms,   \* Enter pressed on the multi-select with nothing selected
    trace,           \* what the run did so far: prompts, prints, writes, installs
    toasts,          \* ToastProvider: the toast list, newest first
    maxToasts,       \* ToastProvider: the maxToasts state
    timers,          \* the setTimeout callbacks addToast scheduled and that did not run yet
    items,           \* the mounted ToastItems: their animated values
    anims,           \* animations in flight whose completion callback did not run yet
    nextId,          \* toasts created so far, plus one
    now,             \* the clock, in milliseconds
    gestures,        \* pans and close presses delivered to toasts so far
    onDismissCalls,  \* the toasts whose onDismiss callback was invoked, in call order
    rendering,       \* a render under observation: the function and what it is given
    rendered         \* what that render produced, undefined until it ran

uiVars == <<mounted, props, state, effects, presses, lastPress, plainSinceMount>>

cliVars == <<pc, argv, exitCode, inquirer, componentDir, srcFiles, tsDeps, files0,
             files, destDir, selectedComponents, queue, ret, emptyConfirms, trace>>

toastVars == <<toasts, maxToasts, timers, items, anims, nextId, now, gestures,
               onDismissCalls>>

renderVars == <<rendering, rendered>>

vars == <<mounted, props, state, effects, presses, lastPress, plainSinceMount,
          pc, argv, exitCode, inquirer, componentDir, srcFiles, tsDeps, files0,
          files, destDir, selectedComponents, queue, ret, emptyConfirms, trace,
          toasts, maxToasts, timers, items, anims, nextId, now, gestures,
          onDismissCalls, rendering, rendered>>

\* ------------------------------------------------------------------------
\* Checkbox and Switch
\* ------------------------------------------------------------------------

ToggleProps ==
    [checked : Opt(BOOLEAN), defaultChecked : BOOLEAN,
     disabled : BOOLEAN, readOnly : BOOLEAN]

\* const [internalChecked, setInternalChecked] = useState(defaultChecked)
Checkbox_useState(p) == [internalChecked |-> p.defaultChecked]

Switch_useState(p) == [internalChecked |-> p.defaultChecked]

\* isControlled ? controlledChecked : internalChecked
Checkbox_isChecked(p, s) ==
    IF p.checked # Undefined THEN p.checked[1] ELSE s.internalChecked

Switch_isChecked(p, s) ==
    IF p.checked # Undefined THEN p.checked[1] ELSE s.internalChecked

\* a Checkbox that writes its internal copy even when `checked` is supplied
Checkbox_handleToggle_alwaysSets(p, s) ==
    IF p.disabled \/ p.readOnly
    THEN [state |-> s, effects |-> <<>>]
    ELSE LET newChecked == ~Checkbox_isChecked(p, s)
         IN  [state |-> [s EXCEPT !.internalChecked = newChecked],
              effects |-> <<SetState("setInternalChecked", newChecked),
                            Call("onCheckedChange", <<newChecked>>),
                            Call("onPress", <<>>)>>]

Checkbox_handleToggle(p, s) ==
    IF p.disabled \/ p.readOnly
    THEN [state |-> s, effects |-> <<>>]
    ELSE LET isControlled == p.checked # Undefined
             newChecked == ~Checkbox_isChecked(p, s)
         IN  [state |-> IF ~isControlled
                        THEN [s EXCEPT !.internalChecked = newChecked]
                        ELSE s,
              effects |-> When(~isControlled, SetState("setInternalChecked", newChecked))
                          \o <<Call("onCheckedChange", <<newChecked>>),
                               Call("onPress", <<>>)>>]

\* a Switch that looks at disabled only
Switch_handleToggle_ignoresReadOnly(p, s) ==
    IF p.disabled
    THEN [state |-> s, effects |-> <<>>]
    ELSE LET isControlled == p.checked # Undefined
             newChecked == ~Switch_isChecked(p, s)
         IN  [state |-> IF ~isControlled
                        THEN [s EXCEPT !.internalChecked = newChecked]
                        ELSE s,
              effects |-> When(~isControlled, SetState("setInternalChecked", newChecked))
                          \o <<Call("onCheckedChange", <<newChecked>>),
                               Call("onPress", <<>>)>>]

\* a Switch that reports the value it had before the press
Switch_handleToggle_staleCallback(p, s) ==
    IF p.disabled \/ p.readOnly
    THEN [state |-> s, effects |-> <<>>]
    ELSE LET isControlled == p.checked # Undefined
             newChecked == ~Switch_isChecked(p, s)
         IN  [state |-> IF ~isControlled
                        THEN [s EXCEPT !.internalChecked = newChecked]
                        ELSE s,
              effects |-> When(~isControlled, SetState("setInternalChecked", newChecked))
                          \o <<Call("onCheckedChange", <<Switch_isChecked(p, s)>>),
                               Call("onPress", <<>>)>>]

Switch_handleToggle(p, s) ==
    IF p.disabled \/ p.readOnly
    THEN [state |-> s, effects |-> <<>>]
    ELSE LET isControlled == p.checked # Undefined
             newChecked == ~Switch_isChecked(p, s)
         IN  [state |-> IF ~isControlled
                        THEN [s EXCEPT !.internalChecked = newChecked]
                        ELSE s,
              effects |-> When(~isControlled, SetState("setInternalChecked", newChecked))
                          \o <<Call("onCheckedChange", <<newChecked>>),
                               Call("onPress", <<>>)>>]

\* ------------------------------------------------------------------------
\* AlertDialog and Drawer
\* ------------------------------------------------------------------------

\* dismissible is a prop of AlertDialogOverlay and of Drawer
OpenProps == [open : Opt(BOOLEAN), defaultOpen : BOOLEAN, dismissible : BOOLEAN]

AlertDialog_useState(p) == [internalOpen |-> p.defaultOpen]

Sides == {"top", "bottom", "left", "right"}

\* the source holds two Drawers: one whose content closes at once ("Drawer"
\* below) and one whose content closes through an exit animation
\* ("AnimatedDrawer").  Their roots are the same code
DrawerProps ==
    [open : Opt(BOOLEAN), defaultOpen : BOOLEAN, dismissible : BOOLEAN, side : Sides]

Drawers == {"Drawer", "AnimatedDrawer"}

\* useState(defaultOpen) of the root, and of the content: the gesture offset
\* (an Animated.Value), the isDragging ref, and the animations in flight: the
\* spring of the gesture offset and the exit animation
Drawer_useState(p) ==
    [internalOpen |-> p.defaultOpen, gestureTranslateY |-> 0, isDragging |-> FALSE,
     spring |-> FALSE, closing |-> FALSE]

AlertDialog_isOpen(p, s) ==
    IF p.open # Undefined THEN p.open[1] ELSE s.internalOpen

Drawer_isOpen(p, s) ==
    IF p.open # Undefined THEN p.open[1] ELSE s.internalOpen

\* an AlertDialog that opens or closes itself although `open` is supplied
AlertDialog_handleOpenChange_setsAnyway(p, s, open) ==
    [state |-> [s EXCEPT !.internalOpen = open],
     effects |-> <<SetState("setInternalOpen", open), Call("onOpenChange", <<open>>)>>]

AlertDialog_handleOpenChange(p, s, open) ==
    LET isControlled == p.open # Undefined
    IN  [state |-> IF ~isControlled THEN [s EXCEPT !.internalOpen = open] ELSE s,
         effects |-> When(~isControlled, SetState("setInternalOpen", open))
                     \o <<Call("onOpenChange", <<open>>)>>]

Drawer_handleOpenChange(p, s, open) ==
    LET isControlled == p.open # Undefined
    IN  [state |-> IF ~isControlled THEN [s EXCEPT !.internalOpen = open] ELSE s,
         effects |-> When(~isControlled, SetState("setInternalOpen", open))
                     \o <<Call("onOpenChange", <<open>>)>>]

\* the pressable parts of a dialog or drawer and the open value each requests
OpenParts == {"trigger", "overlay", "close"}

\* the content's effect on isOpen: a closed drawer resets its gesture offset
DrawerContent_useEffect(p, s) ==
    IF ~Drawer_isOpen(p, s) THEN [s EXCEPT !.gestureTranslateY = 0] ELSE s

\* a handler's result once the render it causes ran its effects
Rendered(p, r) == [state |-> DrawerContent_useEffect(p, r.state), effects |-> r.effects]

DrawerPanEvent(gestureState, y, vy) ==
    [state |-> gestureState, translationY |-> y, velocityY |-> vy]

\* the nativeEvent of onHandlerStateChange when a pan on the content is over,
\* with translations and velocities on both sides of the thresholds
DrawerPanEvents ==
    {DrawerPanEvent("END", 100, 1000), DrawerPanEvent("END", 101, 0),
     DrawerPanEvent("END", 0, 1001), DrawerPanEvent("END", 0 - 101, 1000),
     DrawerPanEvent("END", 0 - 101, 1001), DrawerPanEvent("CANCELLED", 100, 1000),
     DrawerPanEvent("CANCELLED", 101, 0)}

\* handleGestureEvent: the offset follows translationY, never below 0
DrawerContent_handleGestureEvent(s, event) ==
    [s EXCEPT !.gestureTranslateY =
        IF event.translationY < 0 THEN 0 ELSE event.translationY]

\* a content that closes on a long drag in either direction
DrawerContent_handleStateChange_eitherDirection(p, s, event) ==
    IF event.state = "BEGAN"
    THEN [state |-> [s EXCEPT !.isDragging = TRUE], effects |-> <<>>]
    ELSE IF event.state \in {"END", "CANCELLED"}
    THEN LET s1 == [s EXCEPT !.isDragging = FALSE] IN
         IF p.side = "bottom" /\ p.dismissible
         THEN IF (event.translationY > 100 \/ event.translationY < 0 - 100)
                    \/ event.velocityY > 1000
              THEN Drawer_handleOpenChange(p, s1, FALSE)
              ELSE [state |-> [s1 EXCEPT !.spring = TRUE], effects |-> <<>>]
         ELSE [state |-> s1, effects |-> <<>>]
    ELSE [state |-> s, effects |-> <<>>]

\* handleStateChange of the content that closes at once
DrawerContent_handleStateChange(p, s, event) ==
    IF event.state = "BEGAN"
    THEN [state |-> [s EXCEPT !.isDragging = TRUE], effects |-> <<>>]
    ELSE IF event.state \in {"END", "CANCELLED"}
    THEN LET s1 == [s EXCEPT !.isDragging = FALSE] IN
         IF p.side = "bottom" /\ p.dismissible
         THEN LET shouldClose == event.translationY > 100 \/ event.velocityY > 1000
              IN  IF shouldClose
                  THEN Drawer_handleOpenChange(p, s1, FALSE)
                  ELSE [state |-> [s1 EXCEPT !.spring = TRUE], effects |-> <<>>]
         ELSE [state |-> s1, effects |-> <<>>]
    ELSE [state |-> s, effects |-> <<>>]

\* handleStateChange of the content with the exit animation: setIsOpen(false)
\* is called when the animation is over
AnimatedDrawerContent_handleStateChange(p, s, event) ==
    IF event.state = "BEGAN"
    THEN [state |-> [s EXCEPT !.isDragging = TRUE], effects |-> <<>>]
    ELSE IF event.state \in {"END", "CANCELLED"}
    THEN LET s1 == [s EXCEPT !.isDragging = FALSE] IN
         IF p.side = "bottom" /\ p.dismissible
         THEN LET shouldClose == event.translationY > 100 \/ event.velocityY > 1000
              IN  IF shouldClose
                  THEN [state |-> [s1 EXCEPT !.closing = TRUE], effects |-> <<>>]
                  ELSE [state |-> [s1 EXCEPT !.spring = TRUE], effects |-> <<>>]
         ELSE [state |-> s1, effects |-> <<>>]
    ELSE [state |-> s, effects |-> <<>>]

\* handleClose of the content with the exit animation
AnimatedDrawerContent_handleClose(p, s) ==
    [state |-> [s EXCEPT !.closing = TRUE], effects |-> <<>>]

\* the exit animation is over: gestureTranslateY.setValue(0); setIsOpen(false)
AnimatedDrawerContent_closed(p, s) ==
    Drawer_handleOpenChange(p, [s EXCEPT !.closing = FALSE, !.gestureTranslateY = 0],
                            FALSE)

\* ------------------------------------------------------------------------
\* RadioGroup and Select
\* ------------------------------------------------------------------------

ValueProps == [value : Opt(Values), defaultValue : Opt(Values), disabled : BOOLEAN]

RadioGroup_useState(p) == [internalValue |-> p.defaultValue]

Select_useState(p) == [internalValue |-> p.defaultValue, isOpen |-> FALSE]

\* isControlled ? controlledValue : internalValue
RadioGroup_currentValue(p, s) ==
    IF p.value # Undefined THEN p.value ELSE s.internalValue

Select_currentValue(p, s) ==
    IF p.value # Undefined THEN p.value ELSE s.internalValue

\* a group whose selected Radio is cleared by pressing it again
RadioGroup_handleValueChange_toggleOff(p, s, newValue) ==
    LET isControlled == p.value # Undefined
        next == IF s.internalValue = Some(newValue) THEN Undefined ELSE Some(newValue)
    IN  [state |-> IF ~isControlled
                   THEN [s EXCEPT !.internalValue = next]
                   ELSE s,
         effects |-> When(~isControlled, SetState("setInternalValue", next))
                     \o <<Call("onValueChange", <<newValue>>)>>]

RadioGroup_handleValueChange(p, s, newValue) ==
    LET isControlled == p.value # Undefined
    IN  [state |-> IF ~isControlled
                   THEN [s EXCEPT !.internalValue = Some(newValue)]
                   ELSE s,
         effects |-> When(~isControlled, SetState("setInternalValue", Some(newValue)))
                     \o <<Call("onValueChange", <<newValue>>)>>]

\* a Radio of the group: radioGroup.onValueChange(value), then onPress
Radio_handleToggle(p, s, item) ==
    IF (p.disabled \/ item.disabled) \/ item.readOnly
    THEN [state |-> s, effects |-> <<>>]
    ELSE LET r == RadioGroup_handleValueChange(p, s, item.value)
         IN  [state |-> r.state,
              effects |-> r.effects \o <<Call("onPress", <<>>)>>]

Select_handleValueChange(p, s, newValue) ==
    LET isControlled == p.value # Undefined
    IN  [state |-> [internalValue |-> IF ~isControlled
                                      THEN Some(newValue)
                                      ELSE s.internalValue,
                    isOpen |-> FALSE],
         effects |-> When(~isControlled, SetState("setInternalValue", Some(newValue)))
                     \o <<Call("onValueChange", <<newValue>>),
                          SetState("setIsOpen", FALSE)>>]

Select_handleOpenChange(p, s, open) ==
    IF ~p.disabled
    THEN [state |-> [s EXCEPT !.isOpen = open],
          effects |-> <<SetState("setIsOpen", open)>>]
    ELSE [state |-> s, effects |-> <<>>]

SelectItem_handlePress(p, s, item) ==
    IF ~item.disabled
    THEN Select_handleValueChange(p, s, item.value)
    ELSE [state |-> s, effects |-> <<>>]

\* a Radio or SelectItem child: its value and its own flags
Items == [value : Values, disabled : BOOLEAN, readOnly : BOOLEAN]

\* ------------------------------------------------------------------------
\* Accordion
\* ------------------------------------------------------------------------

\* the value of an Accordion is undefined, a string or an array of strings
AUndefined == [t |-> "undefined"]

AString(v) == [t |-> "string", s |-> v]

AArray(a) == [t |-> "array", a |-> a]

\* arrays of distinct item values
ValueArrays == {<<>>} \cup {<<v>> : v \in Values}
               \cup {<<v, w>> : <<v, w>> \in {x \in Values \X Values : x[1] # x[2]}}

AccordionValues(type) ==
    IF type = "single"
    THEN {AUndefined} \cup {AString(v) : v \in Values}
    ELSE {AUndefined} \cup {AArray(a) : a \in ValueArrays}

AccordionProps ==
    UNION {[type : {ty}, value : AccordionValues(ty),
            defaultValue : AccordionValues(ty), collapsible : BOOLEAN]
           : ty \in {"single", "multiple"}}

\* useState(defaultValue || (type === 'multiple' ? [] : undefined))
Accordion_useState(p) ==
    [internalValue |-> IF p.defaultValue # AUndefined THEN p.defaultValue
                       ELSE IF p.type = "multiple" THEN AArray(<<>>)
                       ELSE AUndefined]

Accordion_currentValue(p, s) ==
    IF p.value # AUndefined THEN p.value ELSE s.internalValue

\* newValue.indexOf(itemValue): the first position of v in a, 0 when absent
IndexOf(a, v) ==
    IF \E i \in 1..Len(a) : a[i] = v
    THEN CHOOSE i \in 1..Len(a) : a[i] = v /\ \A j \in 1..(i - 1) : a[j] # v
    ELSE 0

\* newValue.splice(index, 1)
Splice(a, i) == SubSeq(a, 1, i - 1) \o SubSeq(a, i + 1, Len(a))

\* a single Accordion that closes its open item whatever collapsible says
Accordion_newValue_alwaysCollapses(p, s, itemValue) ==
    LET currentValue == Accordion_currentValue(p, s)
    IN  IF p.type = "single"
        THEN IF currentValue = AString(itemValue)
             THEN AUndefined
             ELSE AString(itemValue)
        ELSE LET newValue == IF currentValue.t = "array" THEN currentValue.a ELSE <<>>
                 index == IndexOf(newValue, itemValue)
             IN  IF index >= 1
                 THEN AArray(Splice(newValue, index))
                 ELSE AArray(Append(newValue, itemValue))

\* the value a press on item itemValue asks for
Accordion_newValue(p, s, itemValue) ==
    LET currentValue == Accordion_currentValue(p, s)
    IN  IF p.type = "single"
        THEN IF currentValue = AString(itemValue) /\ p.collapsible
             THEN AUndefined
             ELSE AString(itemValue)
        ELSE LET newValue == IF currentValue.t = "array" THEN currentValue.a ELSE <<>>
                 index == IndexOf(newValue, itemValue)
             IN  IF index >= 1
                 THEN AArray(Splice(newValue, index))
                 ELSE AArray(Append(newValue, itemValue))

Accordion_handleValueChange(p, s, itemValue) ==
    LET isControlled == p.value # AUndefined
        newValue == Accordion_newValue(p, s, itemValue)
    IN  IF isControlled
        THEN [state |-> s,
              effects |-> <<Call("onValueChange", <<newValue>>)>>]
        ELSE [state |-> [s EXCEPT !.internalValue = newValue],
              effects |-> <<SetState("setInternalValue", newValue)>>]

\* AccordionItem.toggle, the onPress of its AccordionTrigger
AccordionItem_toggle(p, s, item) ==
    IF item.disabled
    THEN [state |-> s, effects |-> <<>>]
    ELSE Accordion_handleValueChange(p, s, item.value)

\* ------------------------------------------------------------------------
\* Mounting, re-rendering and user actions
\* ------------------------------------------------------------------------

Components ==
    {"Checkbox", "Switch", "RadioGroup", "Select", "AlertDialog", "Drawer",
     "AnimatedDrawer", "Accordion"}

PropsOf(m) ==
    CASE m \in {"Checkbox", "Switch"} -> ToggleProps
      [] m = "AlertDialog" -> OpenProps
      [] m \in Drawers -> DrawerProps
      [] m \in {"RadioGroup", "Select"} -> ValueProps
      [] m = "Accordion" -> AccordionProps

\* the state of the first render
UseState(m, p) ==
    CASE m = "Checkbox" -> Checkbox_useState(p)
      [] m = "Switch" -> Switch_useState(p)
      [] m = "AlertDialog" -> AlertDialog_useState(p)
      [] m \in Drawers -> Drawer_useState(p)
      [] m = "RadioGroup" -> RadioGroup_useState(p)
      [] m = "Select" -> Select_useState(p)
      [] m = "Accordion" -> Accordion_useState(p)

\* the controlled prop is supplied
IsControlled(m, p) ==
    CASE m \in {"Checkbox", "Switch"} -> p.checked # Undefined
      [] m \in {"AlertDialog"} \cup Drawers -> p.open # Undefined
      [] m \in {"RadioGroup", "Select"} -> p.value # Undefined
      [] m = "Accordion" -> p.value # AUndefined

\* the value the component renders from
Effective(m, p, s) ==
    CASE m = "Checkbox" -> Some(Checkbox_isChecked(p, s))
      [] m = "Switch" -> Some(Switch_isChecked(p, s))
      [] m = "AlertDialog" -> Some(AlertDialog_isOpen(p, s))
      [] m \in Drawers -> Some(Drawer_isOpen(p, s))
      [] m = "RadioGroup" -> RadioGroup_currentValue(p, s)
      [] m = "Select" -> Select_currentValue(p, s)
      [] m = "Accordion" -> Accordion_currentValue(p, s)

\* the supplied controlled prop
Supplied(m, p) ==
    CASE m \in {"Checkbox", "Switch"} -> p.checked
      [] m \in {"AlertDialog"} \cup Drawers -> p.open
      [] m \in {"RadioGroup", "Select", "Accordion"} -> p.value

\* the component blocks interaction as a whole
Blocked(m, p) ==
    CASE m \in {"Checkbox", "Switch"} -> p.disabled \/ p.readOnly
      [] m \in {"RadioGroup", "Select"} -> p.disabled
      [] OTHER -> FALSE

\* the default props are read by useState on the first render only: a
\* re-render keeps them
SameDefaults(m, p, q) ==
    CASE m \in {"Checkbox", "Switch"} -> p.defaultChecked = q.defaultChecked
      [] m \in {"AlertDialog"} \cup Drawers -> p.defaultOpen = q.defaultOpen
      [] m \in {"RadioGroup", "Select", "Accordion"} -> p.defaultValue = q.defaultValue

Part(name) == [part |-> name]

ItemPart(item) == [part |-> "item", item |-> item]

\* the user pressed `input` and handler result r is committed
Handle(r, input) ==
    /\ presses < MaxPresses
    /\ lastPress' = input
    /\ state' = r.state
    /\ effects' = r.effects
    /\ presses' = presses + 1
    /\ UNCHANGED <<mounted, props, plainSinceMount>>
    /\ UNCHANGED <<cliVars, toastVars, renderVars>>

\* the parent renders the component again with other props
ReRender ==
    /\ mounted \in Components
    /\ \E p \in PropsOf(mounted) :
          /\ p # props
          /\ SameDefaults(mounted, p, props)
          /\ props' = p
          /\ plainSinceMount' =
                (plainSinceMount /\ ~IsControlled(mounted, p) /\ ~Blocked(mounted, p))
    /\ state' = IF mounted \in Drawers THEN DrawerContent_useEffect(props', state)
                 ELSE state
    /\ effects' = <<>>
    /\ lastPress' = Part("none")
    /\ UNCHANGED <<mounted, presses>>
    /\ UNCHANGED <<cliVars, toastVars, renderVars>>

CheckboxPress ==
    /\ mounted = "Checkbox"
    /\ Handle(Checkbox_handleToggle(props, state), Part("box"))

SwitchPress ==
    /\ mounted = "Switch"
    /\ Handle(Switch_handleToggle(props, state), Part("track"))

\* AlertDialogTrigger, AlertDialogOverlay, AlertDialogCancel
AlertDialogPress ==
    /\ mounted = "AlertDialog"
    /\ \E part \in OpenParts :
          CASE part = "trigger" ->
                  Handle(AlertDialog_handleOpenChange(props, state, TRUE), Part(part))
            [] part = "overlay" ->
                  /\ props.dismissible
                  /\ Handle(AlertDialog_handleOpenChange(props, state, FALSE), Part(part))
            [] part = "close" ->
                  Handle(AlertDialog_handleOpenChange(props, state, FALSE), Part(part))

\* DrawerTrigger, DrawerOverlay, DrawerClose
DrawerPress ==
    /\ mounted = "Drawer"
    /\ \E part \in OpenParts :
          CASE part = "trigger" ->
                  Handle(Rendered(props, Drawer_handleOpenChange(props, state, TRUE)),
                         Part(part))
            [] part = "overlay" ->
                  /\ props.dismissible
                  /\ Handle(Rendered(props, Drawer_handleOpenChange(props, state, FALSE)),
                            Part(part))
            [] part = "close" ->
                  Handle(Rendered(props, Drawer_handleOpenChange(props, state, FALSE)),
                         Part(part))

\* DrawerTrigger, the overlay and DrawerClose of the drawer with the exit
\* animation: the overlay and the close button are there while it is open
AnimatedDrawerPress ==
    /\ mounted = "AnimatedDrawer"
    /\ \E part \in OpenParts :
          CASE part = "trigger" ->
                  Handle(Rendered(props, Drawer_handleOpenChange(props, state, TRUE)),
                         Part(part))
            [] part = "overlay" ->
                  /\ Drawer_isOpen(props, state)
                  /\ props.dismissible /\ ~state.isDragging
                  /\ Handle(AnimatedDrawerContent_handleClose(props, state), Part(part))
            [] part = "close" ->
                  /\ Drawer_isOpen(props, state)
                  /\ Handle(AnimatedDrawerContent_handleClose(props, state), Part(part))

\* what a gesture or an animation of the drawer's content leaves alone
DrawerFrame ==
    /\ UNCHANGED <<mounted, props, presses, plainSinceMount>>
    /\ UNCHANGED <<toasts, maxToasts, timers, items, anims, nextId, now, onDismissCalls>>
    /\ UNCHANGED <<cliVars, renderVars>>

\* a pan begins on the content of an open drawer: the PanGestureHandler is
\* enabled for a dismissible bottom drawer only
DrawerPanBegan ==
    /\ mounted \in Drawers
    /\ gestures < MaxGestures
    /\ Drawer_isOpen(props, state)
    /\ props.dismissible /\ props.side = "bottom"
    /\ ~state.isDragging
    /\ LET event == DrawerPanEvent("BEGAN", 0, 0)
           r == IF mounted = "Drawer"
                THEN DrawerContent_handleStateChange(props, state, event)
                ELSE AnimatedDrawerContent_handleStateChange(props, state, event)
       IN  /\ state' = r.state
           /\ effects' = r.effects
    /\ lastPress' = Part("panBegan")
    /\ gestures' = gestures + 1
    /\ DrawerFrame

\* the pan is over: the offset followed the finger, then handleStateChange
\* runs with the props of the last render
DrawerPanEnd ==
    /\ mounted \in Drawers
    /\ state.isDragging
    /\ \E event \in DrawerPanEvents :
          LET dragged == DrawerContent_handleGestureEvent(state, event)
              r == IF mounted = "Drawer"
                   THEN DrawerContent_handleStateChange(props, dragged, event)
                   ELSE AnimatedDrawerContent_handleStateChange(props, dragged, event)
          IN  /\ state' = Rendered(props, r).state
              /\ effects' = r.effects
              /\ lastPress' = [part |-> "panEnd", event |-> event]
    /\ UNCHANGED gestures
    /\ DrawerFrame

\* an animation of the content is over: the spring leaves the gesture offset
\* at 0, the exit animation calls setIsOpen(false)
DrawerAnimationEnd ==
    /\ mounted \in Drawers
    /\ \/ /\ state.spring
          /\ state' = [state EXCEPT !.spring = FALSE, !.gestureTranslateY = 0]
          /\ effects' = <<>>
          /\ lastPress' = Part("springEnd")
       \/ /\ state.closing
          /\ LET r == AnimatedDrawerContent_closed(props, state)
             IN  /\ state' = Rendered(props, r).state
                 /\ effects' = r.effects
          /\ lastPress' = Part("exitEnd")
    /\ UNCHANGED gestures
    /\ DrawerFrame

RadioPress ==
    /\ mounted = "RadioGroup"
    /\ \E item \in Items : Handle(Radio_handleToggle(props, state, item), ItemPart(item))

\* SelectTrigger: setIsOpen(!isOpen)
SelectTriggerPress ==
    /\ mounted = "Select"
    /\ Handle(Select_handleOpenChange(props, state, ~state.isOpen), Part("trigger"))

\* the overlay behind SelectContent, and the Modal's onRequestClose
SelectOverlayPress ==
    /\ mounted = "Select"
    /\ state.isOpen
    /\ Handle(Select_handleOpenChange(props, state, FALSE), Part("overlay"))

\* a SelectItem is pressable only while the content is shown
SelectItemPress ==
    /\ mounted = "Select"
    /\ state.isOpen
    /\ \E item \in {i \in Items : ~i.readOnly} :
          Handle(SelectItem_handlePress(props, state, item), ItemPart(item))

AccordionPress ==
    /\ mounted = "Accordion"
    /\ \E item \in {i \in Items : ~i.readOnly} :
          Handle(AccordionItem_toggle(props, state, item), ItemPart(item))

\* no ToastProvider is mounted
ToastOff ==
    /\ toasts = <<>>
    /\ maxToasts = 0
    /\ timers = {}
    /\ items = <<>>
    /\ anims = <<>>
    /\ nextId = 1
    /\ now = 0
    /\ gestures = 0
    /\ onDismissCalls = <<>>

\* no single render is under observation
RenderOff ==
    /\ rendering = [fn |-> "none"]
    /\ rendered = Undefined

\* no installer process runs beside the mounted component
CliOff ==
    /\ pc = "off"
    /\ argv = <<>>
    /\ exitCode = Undefined
    /\ inquirer = TRUE
    /\ componentDir = TRUE
    /\ srcFiles = {}
    /\ tsDeps = FALSE
    /\ files0 = <<>>
    /\ files = <<>>
    /\ destDir = FALSE
    /\ selectedComponents = <<>>
    /\ queue = <<>>
    /\ ret = "main"
    /\ emptyConfirms = 0
    /\ trace = <<>>

InitUI ==
    /\ CliOff
    /\ ToastOff
    /\ RenderOff
    /\ mounted \in Components
    /\ props \in PropsOf(mounted)
    /\ state = UseState(mounted, props)
    /\ effects = <<>>
    /\ presses = 0
    /\ lastPress = Part("none")
    /\ plainSinceMount = (~IsControlled(mounted, props) /\ ~Blocked(mounted, props))

NextUI ==
    \/ ReRender
    \/ CheckboxPress
    \/ SwitchPress
    \/ AlertDialogPress
    \/ DrawerPress
    \/ AnimatedDrawerPress
    \/ DrawerPanBegan
    \/ DrawerPanEnd
    \/ DrawerAnimationEnd
    \/ RadioPress
    \/ SelectTriggerPress
    \/ SelectOverlayPress
    \/ SelectItemPress
    \/ AccordionPress

SpecUI == InitUI /\ [][NextUI]_vars

\* ------------------------------------------------------------------------
\* Controlled and uncontrolled state: C1 - C4
\* ------------------------------------------------------------------------

Toggles == {"Checkbox", "Switch"}

\* C1, as stated: while `checked` is supplied to a Checkbox or Switch, its
\* internal checked state equals the supplied value.
C1_InternalMirrorsChecked ==
    (mounted \in Toggles /\ props.checked # Undefined)
        => state.internalChecked = props.checked[1]

\* C1, amended: while `checked` is supplied to a Checkbox or Switch, the value
\* it renders from (isChecked) equals the supplied value, and no press or
\* re-render writes internalChecked: the internal copy is ignored, keeps the
\* value it had and may differ from `checked`.
C1_ControlledNeverWritesInternal ==
    /\ [](  (mounted \in Toggles /\ props.checked # Undefined)
            => Effective(mounted, props, state) = props.checked)
    /\ [][  (mounted \in Toggles /\ props.checked # Undefined)
            => /\ state'.internalChecked = state.internalChecked
               /\ Named(effects', "setInternalChecked") = <<>> ]_vars

\* a controlled Checkbox was pressed and its internal copy differs from `checked`
C1_Witness ==
    /\ mounted = "Checkbox"
    /\ props.checked # Undefined
    /\ lastPress = Part("box")
    /\ Named(effects, "onCheckedChange") # <<>>
    /\ state.internalChecked # props.checked[1]

ControlledSix == {"Checkbox", "Switch", "RadioGroup", "Select", "AlertDialog", "Drawer"}

InternalSetter(m) ==
    CASE m \in Toggles -> "setInternalChecked"
      [] m \in {"AlertDialog", "Drawer"} -> "setInternalOpen"
      [] m \in {"RadioGroup", "Select"} -> "setInternalValue"

ChangeCallback(m) ==
    CASE m \in Toggles -> "onCheckedChange"
      [] m \in {"AlertDialog", "Drawer"} -> "onOpenChange"
      [] m \in {"RadioGroup", "Select"} -> "onValueChange"

\* the new value a press on `press` asks a controlled component for, Undefined
\* when the press asks for none (the part is blocked, or is not a value part)
Requested(m, p, press) ==
    CASE m \in Toggles ->
            IF p.disabled \/ p.readOnly THEN Undefined ELSE Some(~p.checked[1])
      [] m \in {"AlertDialog", "Drawer"} -> Some(press.part = "trigger")
      [] m = "RadioGroup" ->
            IF p.disabled \/ press.item.disabled \/ press.item.readOnly
            THEN Undefined
            ELSE Some(press.item.value)
      [] m = "Select" ->
            IF press.part # "item" \/ press.item.disabled
            THEN Undefined
            ELSE Some(press.item.value)

\* C2: with the controlled prop supplied to a Checkbox, Switch, RadioGroup,
\* Select, AlertDialog or Drawer, the value rendered from equals the prop in
\* every state, and a user action calls no setter of the internal copy, invokes
\* the change callback exactly with the value it asks for, and leaves the
\* rendered value as it was.
C2_ControlledPropIsTruth ==
    /\ [](  (mounted \in ControlledSix /\ IsControlled(mounted, props))
            => Effective(mounted, props, state) = Supplied(mounted, props))
    /\ [][  (/\ mounted \in ControlledSix
             /\ IsControlled(mounted, props)
             /\ presses' = presses + 1)
            => /\ Named(effects', InternalSetter(mounted)) = <<>>
               /\ Effective(mounted, props', state') = Effective(mounted, props, state)
               /\ Named(effects', ChangeCallback(mounted)) =
                     LET rq == Requested(mounted, props, lastPress')
                     IN  IF rq = Undefined THEN <<>>
                         ELSE <<Call(ChangeCallback(mounted), rq)>> ]_vars

\* the trigger of a closed controlled AlertDialog was pressed: the callback got
\* TRUE and the dialog still renders closed
C2_Witness ==
    /\ mounted = "AlertDialog"
    /\ props.open = Some(FALSE)
    /\ lastPress = Part("trigger")
    /\ effects = <<Call("onOpenChange", <<TRUE>>)>>
    /\ ~AlertDialog_isOpen(props, state)

\* C3: a press on an uncontrolled Checkbox or Switch that is neither disabled
\* nor readOnly flips internalChecked, calls its setter once and invokes
\* onCheckedChange once with the new value; after n presses on a component
\* that stayed so since mount the state is defaultChecked XOR (n is odd).
C3_UncontrolledToggleFlipsOnce ==
    /\ [][  (/\ mounted \in Toggles
             /\ props.checked = Undefined
             /\ ~props.disabled /\ ~props.readOnly
             /\ presses' = presses + 1)
            => /\ state'.internalChecked = ~state.internalChecked
               /\ Named(effects', "setInternalChecked")
                     = <<SetState("setInternalChecked", ~state.internalChecked)>>
               /\ Named(effects', "onCheckedChange")
                     = <<Call("onCheckedChange", <<~state.internalChecked>>)>> ]_vars
    /\ [](  (mounted \in Toggles /\ plainSinceMount)
            => state.internalChecked = (props.defaultChecked # (presses % 2 = 1)))

\* an uncontrolled Switch after three presses
C3_Witness ==
    /\ mounted = "Switch"
    /\ plainSinceMount
    /\ presses = 3
    /\ state.internalChecked = ~props.defaultChecked
    /\ Named(effects, "onCheckedChange") = <<Call("onCheckedChange", <<state.internalChecked>>)>>

\* C4: a press on an enabled item of an uncontrolled Accordion calls the setter
\* of the internal value once and invokes onValueChange with the new value.
C4_UncontrolledAccordionNotifies ==
    [][  (/\ mounted = "Accordion"
          /\ props.value = AUndefined
          /\ presses' = presses + 1
          /\ ~lastPress'.item.disabled)
         => /\ Len(Named(effects', "setInternalValue")) = 1
            /\ Named(effects', "onValueChange")
                  = <<Call("onValueChange", <<state'.internalValue>>)>> ]_vars

\* ------------------------------------------------------------------------
\* The installer, src/cli/index.js
\* ------------------------------------------------------------------------

\* three of the registry's sixteen entries; the entries differ only in their
\* names, paths and dependency lists
ComponentsConfig ==
    [button |->
        [name |-> "Button", dependencies |-> <<>>,
         files |-> <<[src |-> "ui/button.tsx", dest |-> "components/ui/button.tsx"]>>],
     checkbox |->
        [name |-> "Checkbox", dependencies |-> <<"react-native-svg">>,
         files |-> <<[src |-> "ui/checkbox.tsx", dest |-> "components/ui/checkbox.tsx"]>>],
     skeleton |->
        [name |-> "Skeleton",
         dependencies |-> <<"react-native-reanimated", "expo-linear-gradient">>,
         files |-> <<[src |-> "ui/skeleton.tsx", dest |-> "components/ui/skeleton.tsx"]>>]]

Keys == DOMAIN ComponentsConfig

\* a key that is not in the registry
UnknownKey == "tooltip"

SrcPaths == {ComponentsConfig[k].files[1].src : k \in Keys}

DestPaths == {ComponentsConfig[k].files[1].dest : k \in Keys}

ThemeConfigPath == "theme.config.ts"

TsConfigPath == "tsconfig.json"

InquirerPath == "node_modules/inquirer"

Paths == {ThemeConfigPath, TsConfigPath, InquirerPath} \cup DestPaths

\* file contents are sequences of lines
THEME_CONFIG_TEMPLATE == <<"export interface LightTheme", "export const currentTheme = lightTheme">>

\* what the user had in a file before the run
UserText == <<"edited by the user">>

\* the contents of a component source: TypeScript with an interface block,
\* a type-only import and annotated code
SourceText(src) ==
    <<src, "import type { ViewStyle }", "interface Props { }", "const x: number = 1">>

\* the language-downgrade transform of the specification: type-only imports and
\* interface blocks are stripped, annotations are removed from the code
TsToJsLine(line) ==
    CASE line = "const x: number = 1" -> <<"const x = 1">>
      [] line \in {"import type { ViewStyle }", "interface Props { }"} -> <<>>
      [] OTHER -> <<line>>

RECURSIVE TsToJs(_)
TsToJs(text) ==
    IF text = <<>> THEN <<>> ELSE TsToJsLine(Head(text)) \o TsToJs(Tail(text))

fs_existsSync(f, path) == f[path] # Undefined

fs_writeFile(f, path, data) == [f EXCEPT ![path] = Some(data)]

\* a copy that leaves an existing destination alone (overwrite: false)
fs_copy_keepExisting(f, src, dest) ==
    IF f[dest] # Undefined THEN f ELSE [f EXCEPT ![dest] = Some(SourceText(src))]

\* fs-extra's copy overwrites an existing destination (overwrite: true)
fs_copy(f, src, dest) == [f EXCEPT ![dest] = Some(SourceText(src))]

\* a project counts as TypeScript when it has a tsconfig.json or lists
\* TypeScript among its dependencies
IsTypeScriptProject == fs_existsSync(files, TsConfigPath) \/ tsDeps

\* the answers to an inquirer confirm prompt: y, n, or Enter for the default
Answers == {"y", "n", "enter"}

Confirm(answer, default) == IF answer = "enter" THEN default ELSE answer = "y"

\* an overwrite prompt whose default answer is yes
OverwriteDefault_yes == TRUE

\* the `default` of the two confirm prompts
OverwriteDefault == FALSE

InitFirstDefault == TRUE

\* what the checkbox prompt can return: the checked keys, none twice
Selections ==
    {<<>>} \cup {<<k>> : k \in Keys}
    \cup {s \in Keys \X Keys : s[1] # s[2]}
    \cup {s \in Keys \X Keys \X Keys : s[1] # s[2] /\ s[1] # s[3] /\ s[2] # s[3]}

\* a validate that lets an empty selection through
Validate_acceptsEmpty(answer) == Len(answer) >= 0

\* validate: (answer) => answer.length < 1 ? 'You must choose ...' : true
Validate(answer) == ~(Len(answer) < 1)

Argvs ==
    {<<>>, <<"init">>, <<"add">>, <<"list">>, <<"--version">>, <<"-v">>,
     <<"--help">>, <<"-h">>, <<"remove">>}
    \cup {<<"add", k>> : k \in Keys \cup {UnknownKey}}

Did(kind, what) == <<kind, what>>

\* process.exit(code), or the end of main (code 0): nothing runs afterwards
Exit(code) ==
    /\ pc' = "exited"
    /\ exitCode' = Some(code)

Writes == {trace[i][2] : i \in {j \in 1..Len(trace) : trace[j][1] \in {"write", "mkdir"}}}

Happened(e) == \E i \in 1..Len(trace) : trace[i] = e

cliEnv == <<argv, componentDir, srcFiles, tsDeps, files0>>

\* a fatal error: it is reported and the process ends with code 1
Fatal(what) ==
    /\ trace' = Append(trace, Did("error", what))
    /\ Exit(1)

\* lines 18-28: inquirer is installed with npm when it cannot be resolved; a
\* failing execSync throws at the top level of the script
LoadInquirer ==
    /\ pc = "load"
    /\ IF inquirer
       THEN /\ pc' = "main"
            /\ UNCHANGED <<exitCode, inquirer, files, trace>>
       ELSE \E ok \in BOOLEAN :
              IF ok
              THEN /\ files' = fs_writeFile(files, InquirerPath, <<"inquirer">>)
                   /\ inquirer' = TRUE
                   /\ trace' = Append(trace, Did("write", InquirerPath))
                   /\ pc' = "main"
                   /\ UNCHANGED exitCode
              ELSE /\ Fatal("npm install")
                   /\ UNCHANGED <<inquirer, files>>
    /\ UNCHANGED <<cliEnv, destDir, selectedComponents, queue, ret, emptyConfirms>>
    /\ UNCHANGED <<uiVars, toastVars, renderVars>>

\* main: the switch on the command
main ==
    /\ pc = "main"
    /\ LET command == IF Len(argv) >= 1 THEN argv[1] ELSE "" IN
       CASE command = "init" ->
               /\ pc' = "init"
               /\ ret' = "main"
               /\ UNCHANGED <<exitCode, queue, trace>>
         [] command = "add" ->
               /\ IF Len(argv) < 2
                  THEN pc' = "select" /\ UNCHANGED queue
                  ELSE pc' = "install" /\ queue' = <<argv[2]>>
               /\ UNCHANGED <<exitCode, ret, trace>>
         [] command = "list" ->
               /\ IF ~componentDir
                  THEN Fatal("components directory")
                  ELSE Exit(0) /\ trace' = Append(trace, Did("print", "list"))
               /\ UNCHANGED <<queue, ret>>
         [] command \in {"--version", "-v"} ->
               /\ \E readable \in BOOLEAN :
                     IF readable
                     THEN Exit(0) /\ trace' = Append(trace, Did("print", "version"))
                     ELSE Fatal("package.json")
               /\ UNCHANGED <<queue, ret>>
         [] OTHER ->
               /\ Exit(0)
               /\ trace' = Append(trace, Did("print", "help"))
               /\ UNCHANGED <<queue, ret>>
    /\ UNCHANGED <<cliEnv, inquirer, files, destDir, selectedComponents, emptyConfirms>>
    /\ UNCHANGED <<uiVars, toastVars, renderVars>>

\* selectComponents up to the prompt: getComponentsConfig, then the checkbox prompt
selectComponents ==
    /\ pc = "select"
    /\ IF ~componentDir
       THEN Fatal("components directory")
       ELSE /\ pc' = "selectPrompt"
            /\ trace' = Append(trace, Did("prompt", "select"))
            /\ UNCHANGED exitCode
    /\ UNCHANGED <<cliEnv, inquirer, files, destDir, selectedComponents, queue, ret, emptyConfirms>>
    /\ UNCHANGED <<uiVars, toastVars, renderVars>>

\* the user presses Enter on the multi-select, or the prompt rejects; main
\* then loops over the answer
selectComponents_prompt ==
    /\ pc = "selectPrompt"
    /\ \/ \E answer \in Selections :
            IF Validate(answer)
            THEN /\ selectedComponents' = answer
                 /\ queue' = answer
                 /\ trace' = Append(trace, Did("answer", "selection"))
                 /\ IF answer = <<>>
                    THEN Exit(0)
                    ELSE pc' = "install" /\ UNCHANGED exitCode
                 /\ UNCHANGED emptyConfirms
            ELSE /\ emptyConfirms < MaxEmptyConfirms
                 /\ emptyConfirms' = emptyConfirms + 1
                 /\ UNCHANGED <<pc, exitCode, selectedComponents, queue, trace>>
       \/ /\ Fatal("prompt")
          /\ UNCHANGED <<selectedComponents, queue, emptyConfirms>>
    /\ UNCHANGED <<cliEnv, inquirer, files, destDir, ret>>
    /\ UNCHANGED <<uiVars, toastVars, renderVars>>

\* installComponent up to the theme check
installComponent ==
    /\ pc = "install"
    /\ queue # <<>>
    /\ LET component == Head(queue) IN
       IF ~componentDir
       THEN Fatal("components directory")
       ELSE IF component \notin Keys
       THEN /\ trace' = trace \o <<Did("error", "component not found"),
                                   Did("print", "keys")>>
            /\ Exit(1)
       ELSE IF ~fs_existsSync(files, ThemeConfigPath)
       THEN /\ pc' = "initFirst"
            /\ trace' = trace \o <<Did("start", component), Did("prompt", "initFirst")>>
            /\ UNCHANGED exitCode
       ELSE /\ pc' = "file"
            /\ trace' = Append(trace, Did("start", component))
            /\ UNCHANGED exitCode
    /\ UNCHANGED <<cliEnv, inquirer, files, destDir, selectedComponents, queue, ret, emptyConfirms>>
    /\ UNCHANGED <<uiVars, toastVars, renderVars>>

\* the answer to 'Would you like to run "npx ui69 init" first'
installComponent_initFirst ==
    /\ pc = "initFirst"
    /\ \/ \E answer \in Answers :
            /\ IF Confirm(answer, InitFirstDefault)
               THEN pc' = "init" /\ ret' = "install"
               ELSE pc' = "file" /\ UNCHANGED ret
            /\ trace' = Append(trace, Did("answer", answer))
            /\ UNCHANGED exitCode
       \/ /\ Fatal("prompt")
          /\ UNCHANGED ret
    /\ UNCHANGED <<cliEnv, inquirer, files, destDir, selectedComponents, queue, emptyConfirms>>
    /\ UNCHANGED <<uiVars, toastVars, renderVars>>

\* where the caller of initializeProject goes on
Return ==
    IF ret = "install"
    THEN pc' = "file" /\ UNCHANGED exitCode
    ELSE Exit(0)

\* initializeProject up to the overwrite prompt
initializeProject ==
    /\ pc = "init"
    /\ IF fs_existsSync(files, ThemeConfigPath)
       THEN /\ pc' = "overwrite"
            /\ trace' = Append(trace, Did("prompt", "overwrite"))
       ELSE /\ pc' = "writeTheme"
            /\ UNCHANGED trace
    /\ UNCHANGED <<cliEnv, exitCode, inquirer, files, destDir, selectedComponents, queue, ret, emptyConfirms>>
    /\ UNCHANGED <<uiVars, toastVars, renderVars>>

\* the answer to 'Do you want to overwrite the existing theme.config.ts?'
initializeProject_overwrite ==
    /\ pc = "overwrite"
    /\ \/ \E answer \in Answers :
            /\ trace' = Append(trace, Did("answer", answer))
            /\ IF ~Confirm(answer, OverwriteDefault)
               THEN Return
               ELSE pc' = "writeTheme" /\ UNCHANGED exitCode
       \/ Fatal("prompt")
    /\ UNCHANGED <<cliEnv, inquirer, files, destDir, selectedComponents, queue, ret, emptyConfirms>>
    /\ UNCHANGED <<uiVars, toastVars, renderVars>>

\* await fs.writeFile(themeConfigPath, THEME_CONFIG_TEMPLATE)
initializeProject_writeFile ==
    /\ pc = "writeTheme"
    /\ \E ok \in BOOLEAN :
          IF ok
          THEN /\ files' = fs_writeFile(files, ThemeConfigPath, THEME_CONFIG_TEMPLATE)
               /\ trace' = Append(trace, Did("write", ThemeConfigPath))
               /\ Return
          ELSE /\ Fatal("write theme.config.ts")
               /\ UNCHANGED files
    /\ UNCHANGED <<cliEnv, inquirer, destDir, selectedComponents, queue, ret, emptyConfirms>>
    /\ UNCHANGED <<uiVars, toastVars, renderVars>>

\* the file of the component being installed
CurrentFile == ComponentsConfig[Head(queue)].files[1]

\* a loop that prepares the destination directory before it looks for the source
installComponent_file_createsFirst ==
    /\ pc = "file"
    /\ IF CurrentFile.src \notin srcFiles
       THEN /\ destDir' = TRUE
            /\ trace' = trace \o <<Did("mkdir", "components/ui"),
                                   Did("error", "source file not found")>>
            /\ Exit(1)
       ELSE pc' = "ensureDir" /\ UNCHANGED <<exitCode, trace, destDir>>
    /\ UNCHANGED <<cliEnv, inquirer, files, selectedComponents, queue, ret, emptyConfirms>>
    /\ UNCHANGED <<uiVars, toastVars, renderVars>>

\* the loop over config.files: the source must exist
installComponent_file ==
    /\ pc = "file"
    /\ IF CurrentFile.src \notin srcFiles
       THEN Fatal("source file not found")
       ELSE pc' = "ensureDir" /\ UNCHANGED <<exitCode, trace>>
    /\ UNCHANGED <<cliEnv, inquirer, files, destDir, selectedComponents, queue, ret, emptyConfirms>>
    /\ UNCHANGED <<uiVars, toastVars, renderVars>>

\* await fs.ensureDir(path.dirname(destPath))
installComponent_ensureDir ==
    /\ pc = "ensureDir"
    /\ \E ok \in BOOLEAN :
          IF ok
          THEN /\ destDir' = TRUE
               /\ trace' = IF destDir THEN trace
                           ELSE Append(trace, Did("mkdir", "components/ui"))
               /\ pc' = "copy"
               /\ UNCHANGED exitCode
          ELSE /\ Fatal("create directory")
               /\ UNCHANGED destDir
    /\ UNCHANGED <<cliEnv, inquirer, files, selectedComponents, queue, ret, emptyConfirms>>
    /\ UNCHANGED <<uiVars, toastVars, renderVars>>

\* a copy step that reports the failure and carries on
installComponent_copy_carriesOn ==
    /\ pc = "copy"
    /\ \E ok \in BOOLEAN :
          /\ IF ok
             THEN /\ files' = fs_copy(files, CurrentFile.src, CurrentFile.dest)
                  /\ trace' = Append(trace, Did("write", CurrentFile.dest))
             ELSE /\ trace' = Append(trace, Did("error", "copy file"))
                  /\ UNCHANGED files
          /\ pc' = "installed"
          /\ UNCHANGED exitCode
    /\ UNCHANGED <<cliEnv, inquirer, destDir, selectedComponents, queue, ret, emptyConfirms>>
    /\ UNCHANGED <<uiVars, toastVars, renderVars>>

\* await fs.copy(srcPath, destPath)
installComponent_copy ==
    /\ pc = "copy"
    /\ \E ok \in BOOLEAN :
          IF ok
          THEN /\ files' = fs_copy(files, CurrentFile.src, CurrentFile.dest)
               /\ trace' = Append(trace, Did("write", CurrentFile.dest))
               /\ pc' = "installed"
               /\ UNCHANGED exitCode
          ELSE /\ Fatal("copy file")
               /\ UNCHANGED files
    /\ UNCHANGED <<cliEnv, inquirer, destDir, selectedComponents, queue, ret, emptyConfirms>>
    /\ UNCHANGED <<uiVars, toastVars, renderVars>>

\* the rest of installComponent, and main's loop over the selection
installComponent_done ==
    /\ pc = "installed"
    /\ trace' = Append(trace, Did("end", Head(queue)))
    /\ queue' = Tail(queue)
    /\ IF Tail(queue) = <<>>
       THEN Exit(0)
       ELSE pc' = "install" /\ UNCHANGED exitCode
    /\ UNCHANGED <<cliEnv, inquirer, files, destDir, selectedComponents, ret, emptyConfirms>>
    /\ UNCHANGED <<uiVars, toastVars, renderVars>>

\* no component is mounted beside the installer
UiOff ==
    /\ mounted = "none"
    /\ props = <<>>
    /\ state = <<>>
    /\ effects = <<>>
    /\ presses = 0
    /\ lastPress = [part |-> "none"]
    /\ plainSinceMount = FALSE

InitCLI ==
    /\ UiOff
    /\ ToastOff
    /\ RenderOff
    /\ pc = "load"
    /\ argv \in Argvs
    /\ exitCode = Undefined
    /\ inquirer \in BOOLEAN
    /\ componentDir \in BOOLEAN
    /\ srcFiles \in SUBSET SrcPaths
    /\ componentDir = FALSE => srcFiles = {}
    /\ tsDeps \in BOOLEAN
    /\ files \in [Paths -> {Undefined, Some(UserText)}]
    /\ files[InquirerPath] = Undefined
    /\ files0 = files
    /\ destDir \in BOOLEAN
    /\ (\E d \in DestPaths : files[d] # Undefined) => destDir
    /\ selectedComponents = <<>>
    /\ queue = <<>>
    /\ ret = "main"
    /\ emptyConfirms = 0
    /\ trace = <<>>

NextCLI ==
    \/ LoadInquirer
    \/ main
    \/ selectComponents
    \/ selectComponents_prompt
    \/ installComponent
    \/ installComponent_initFirst
    \/ initializeProject
    \/ initializeProject_overwrite
    \/ initializeProject_writeFile
    \/ installComponent_file
    \/ installComponent_ensureDir
    \/ installComponent_copy
    \/ installComponent_done

SpecCLI == InitCLI /\ [][NextCLI]_vars

\* ------------------------------------------------------------------------
\* The installer: C5 - C10
\* ------------------------------------------------------------------------

Src(k) == ComponentsConfig[k].files[1].src

Dest(k) == ComponentsConfig[k].files[1].dest

Exited == pc = "exited"

\* C5: `add <key>` with a key that is not in the registry creates or modifies
\* no file at any point of the run, ends with a non-zero exit code, and prints
\* the list of valid keys once the key has been looked up.
C5_UnknownKeyTouchesNothing ==
    argv = <<"add", UnknownKey>>
        => /\ files = files0
           /\ Writes = {}
           /\ Exited => exitCode = Some(1)
           /\ (Exited /\ componentDir /\ inquirer) => Happened(Did("print", "keys"))

\* C6: once a registered component is installed its destination file holds the
\* source byte for byte in a TypeScript project and the output of the TS-to-JS
\* transform in a JavaScript-only project.
C6_InstalledContentsFollowLanguage ==
    \A k \in Keys :
        Happened(Did("end", k))
            => files[Dest(k)] = Some(IF IsTypeScriptProject
                                     THEN SourceText(Src(k))
                                     ELSE TsToJs(SourceText(Src(k))))

Errors == {i \in 1..Len(trace) : trace[i][1] = "error"}

\* C7: a run ends with exit code 0 exactly when no fatal error occurred; a
\* fatal error ends the process with code 1 where it occurs: it is the only
\* one, nothing but the listing of the valid keys follows it, and no step is
\* taken once the process has ended.
C7_ExitCodeTellsFatalError ==
    /\ [](/\ ~Exited => exitCode = Undefined
          /\ Exited => /\ exitCode \in {Some(0), Some(1)}
                       /\ exitCode = Some(0) <=> Errors = {}
          /\ Errors # {}
                => /\ Exited /\ exitCode = Some(1)
                   /\ Cardinality(Errors) = 1
                   /\ \A i \in Errors :
                         \/ i = Len(trace)
                         \/ /\ i = Len(trace) - 1
                            /\ trace[Len(trace)] = Did("print", "keys"))
    /\ [][~Exited]_vars

\* a multi-select run whose second install failed in the copy
C7_Witness ==
    /\ Exited
    /\ exitCode = Some(1)
    /\ Len(trace) >= 1
    /\ trace[Len(trace)] = Did("error", "copy file")
    /\ \E k \in Keys : Happened(Did("end", k))

Declined == Happened(Did("answer", "n")) \/ Happened(Did("answer", "enter"))

\* C8: in a run of `init`, an existing theme.config.ts is written only after
\* the user answered yes to the overwrite question; when the user declines (n,
\* or Enter for the default) the run ends right after the answer with the file
\* as it was; a run that ends well with the file absent before or the answer
\* yes leaves the theme template in the file.
C8_InitAsksBeforeOverwrite ==
    argv = <<"init">>
        => /\ (files0[ThemeConfigPath] # Undefined /\ ThemeConfigPath \in Writes)
                => Happened(Did("answer", "y"))
           /\ Declined
                => /\ files[ThemeConfigPath] = files0[ThemeConfigPath]
                   /\ ThemeConfigPath \notin Writes
                   /\ Exited /\ exitCode = Some(0)
                   /\ trace[Len(trace) - 1] = Did("prompt", "overwrite")
                   /\ trace[Len(trace)][1] = "answer"
           /\ (Exited /\ exitCode = Some(0) /\ ~Declined)
                => /\ files[ThemeConfigPath] = Some(THEME_CONFIG_TEMPLATE)
                   /\ files0[ThemeConfigPath] # Undefined
                        => Happened(Did("prompt", "overwrite"))

\* init found the user's theme.config.ts, the user pressed Enter, the file is
\* as it was
C8_Witness ==
    /\ argv = <<"init">>
    /\ Exited
    /\ files0[ThemeConfigPath] = Some(UserText)
    /\ Happened(Did("answer", "enter"))
    /\ files[ThemeConfigPath] = Some(UserText)

Prompts == {trace[i][2] : i \in {j \in 1..Len(trace) : trace[j][1] = "prompt"}}

\* C9: an `add` run never asks about an existing file (its only questions are
\* the selection and whether to run init first), and once a component is
\* installed its destination directory exists and its destination file holds
\* the source, whatever it held before.
C9_InstallOverwritesWithoutAsking ==
    (Len(argv) >= 1 /\ argv[1] = "add")
        => /\ Prompts \subseteq {"select", "initFirst"}
           /\ \A k \in Keys :
                 Happened(Did("end", k))
                    => /\ destDir
                       /\ files[Dest(k)] = Some(SourceText(Src(k)))

\* button was installed over a file the user had edited
C9_Witness ==
    /\ argv = <<"add", "button">>
    /\ Exited /\ exitCode = Some(0)
    /\ files0[Dest("button")] = Some(UserText)
    /\ files[Dest("button")] = Some(SourceText(Src("button")))
    /\ Happened(Did("end", "button"))

\* the installs of the run, in the order they started and finished
Installs == SelectSeq(trace, LAMBDA e : e[1] \in {"start", "end"})

\* sel installed one after another: start, end, start, end, ...
OneByOne(sel) ==
    [i \in 1..(2 * Len(sel)) |->
        IF i % 2 = 1 THEN Did("start", sel[(i + 1) \div 2])
        ELSE Did("end", sel[i \div 2])]

IsPrefix(a, b) == Len(a) <= Len(b) /\ a = SubSeq(b, 1, Len(a))

\* C10: `add` without a component shows the multi-select before anything is
\* installed, the answer it returns is never empty, and the selected
\* components are installed one after another in the order of the answer;
\* `add <component>` never shows the multi-select and installs that component
\* only.
C10_AddInstallsSelectionInOrder ==
    /\ argv = <<"add">>
          => /\ Happened(Did("answer", "selection")) => Len(selectedComponents) >= 1
             /\ Installs # <<>> => Happened(Did("answer", "selection"))
             /\ IsPrefix(Installs, OneByOne(selectedComponents))
             /\ (Exited /\ exitCode = Some(0)) => Installs = OneByOne(selectedComponents)
    /\ (Len(argv) = 2 /\ argv[1] = "add")
          => /\ "select" \notin Prompts
             /\ IsPrefix(Installs, OneByOne(<<argv[2]>>))
             /\ (Exited /\ exitCode = Some(0)) => Installs = OneByOne(<<argv[2]>>)

\* an empty confirmation was refused, then three components were selected and
\* installed in that order
C10_Witness ==
    /\ argv = <<"add">>
    /\ Exited /\ exitCode = Some(0)
    /\ emptyConfirms = 1
    /\ selectedComponents = <<"skeleton", "button", "checkbox">>
    /\ Installs = OneByOne(selectedComponents)

\* ------------------------------------------------------------------------
\* A missing component source: C11
\* ------------------------------------------------------------------------

\* the events of the run since the install of the current entry started
SinceStart ==
    LET starts == {i \in 1..Len(trace) : trace[i][1] = "start"}
    IN  IF starts = {} THEN <<>>
        ELSE SubSeq(trace, CHOOSE i \in starts : \A j \in starts : j <= i, Len(trace))

SourceMissing == pc = "file" /\ CurrentFile.src \notin srcFiles

\* C11: when installComponent reaches a registered entry whose source file
\* does not exist, its next step ends the process with exit code 1 and leaves
\* the destination directory and every file as they were; in the run that
\* ended so, nothing was created or written since the install of that entry
\* started except, possibly, the theme configuration asked for on the way, and
\* the entry's destination file is as the run found it.
C11_MissingSourceExitsBeforeWriting ==
    /\ [](Happened(Did("error", "source file not found"))
            => /\ Exited /\ exitCode = Some(1)
               /\ queue # <<>> /\ Head(queue) \in Keys
               /\ Src(Head(queue)) \notin srcFiles
               /\ files[Dest(Head(queue))] = files0[Dest(Head(queue))]
               /\ \A i \in 1..Len(SinceStart) :
                     SinceStart[i][1] \in {"write", "mkdir"}
                        => SinceStart[i] = Did("write", ThemeConfigPath))
    /\ [][SourceMissing
            => /\ Exited' /\ exitCode' = Some(1)
               /\ files' = files /\ destDir' = destDir
               /\ trace' = Append(trace, Did("error", "source file not found"))]_vars

\* `add button` where button's source is missing and components/ui did not
\* exist: the run ended with code 1 and the directory still does not exist
C11_Witness ==
    /\ argv = <<"add", "button">>
    /\ Exited /\ exitCode = Some(1)
    /\ Happened(Did("error", "source file not found"))
    /\ ~destDir
    /\ files[Dest("button")] = Undefined

\* ------------------------------------------------------------------------
\* Toasts: ToastProvider and ToastItem
\* ------------------------------------------------------------------------

\* Dimensions.get('window').width
SCREEN_WIDTH == 400

\* the maxToasts prop of the provider, 3 when omitted
MaxToastsProps == {Undefined, Some(1)}

\* what the caller passes to addToast: Omit<ToastData, 'id'>, the fields the
\* provider reads.  A toast with the default duration, a shorter one, one with
\* duration 0 and a persistent one
ToastInputs ==
    {[duration |-> Undefined, persistent |-> Undefined],
     [duration |-> Some(1000), persistent |-> Some(FALSE)],
     [duration |-> Some(0), persistent |-> Undefined],
     [duration |-> Some(1000), persistent |-> Some(TRUE)]}

Ids(ts) == {ts[i].id : i \in 1..Len(ts)}

\* array.slice(0, n)
Slice(a, n) == SubSeq(a, 1, IF n < Len(a) THEN (IF n < 0 THEN 0 ELSE n) ELSE Len(a))

\* array.filter(toast => toast.id !== id)
WithoutId(ts, id) == SelectSeq(ts, LAMBDA t : t.id # id)

\* a ToastItem as it is mounted, once its entrance animation has run
NewItem == [translateX |-> 0, opacity |-> 1]

\* the ToastContainer renders one ToastItem per toast, keyed by id: an item
\* keeps its animated values while its toast stays in the list
Render(ts, its) ==
    [id \in Ids(ts) |-> IF id \in DOMAIN its THEN its[id] ELSE NewItem]

\* a provider that schedules the removal of every toast it adds
addToast_alwaysTimed(toast) ==
    LET id == nextId
        newToast == [id |-> id,
                     duration |-> IF toast.duration = Undefined THEN 2000
                                  ELSE toast.duration[1],
                     persistent |-> toast.persistent]
        updated == <<newToast>> \o toasts
    IN  /\ toasts' = Slice(updated, maxToasts)
        /\ items' = Render(toasts', items)
        /\ timers' = timers \cup {[id |-> id, due |-> now + newToast.duration]}
        /\ nextId' = nextId + 1

addToast(toast) ==
    LET id == nextId
        newToast == [id |-> id,
                     duration |-> IF toast.duration = Undefined THEN 2000
                                  ELSE toast.duration[1],
                     persistent |-> toast.persistent]
        updated == <<newToast>> \o toasts
    IN  /\ toasts' = Slice(updated, maxToasts)
        /\ items' = Render(toasts', items)
        /\ timers' = IF toast.persistent # Some(TRUE) /\ newToast.duration > 0
                     THEN timers \cup {[id |-> id, due |-> now + newToast.duration]}
                     ELSE timers
        /\ nextId' = nextId + 1

\* a removeToast that drops the newest toast when the id is not on the list
removeToast_shift(id) ==
    /\ toasts' = IF id \in Ids(toasts) \/ toasts = <<>>
                 THEN WithoutId(toasts, id) ELSE Tail(toasts)
    /\ items' = Render(toasts', items)

\* setToasts(prev => prev.filter(toast => toast.id !== id))
removeToast(id) ==
    /\ toasts' = WithoutId(toasts, id)
    /\ items' = Render(toasts', items)

Abs(x) == IF x < 0 THEN 0 - x ELSE x

PanEvent(gestureState, x, vx) ==
    [state |-> gestureState, translationX |-> x, velocityX |-> vx]

\* the nativeEvent of onHandlerStateChange when the pan is over: the finger
\* was lifted (END) or the system took the touch away (CANCELLED), with
\* translations and velocities on both sides of the thresholds
PanEvents ==
    {PanEvent("END", 100, 800), PanEvent("END", 0 - 100, 0 - 800),
     PanEvent("END", 101, 0), PanEvent("END", 0 - 101, 0),
     PanEvent("END", 0, 801), PanEvent("END", 0, 0 - 801),
     PanEvent("CANCELLED", 100, 800), PanEvent("CANCELLED", 101, 801)}

\* the animation a toast's handleStateChange starts, none unless the state is
\* END; an animation is followed with the event it answers
ToastItem_handleStateChange_velocityOnly(id, event) ==
    IF event.state = "END"
    THEN IF Abs(event.velocityX) > 800
         THEN <<[id |-> id, kind |-> "swipeOut", event |-> event,
                 toValue |-> IF event.translationX > 0 THEN SCREEN_WIDTH
                             ELSE 0 - SCREEN_WIDTH]>>
         ELSE <<[id |-> id, kind |-> "spring", event |-> event, toValue |-> 0]>>
    ELSE <<>>

ToastItem_handleStateChange(id, event) ==
    IF event.state = "END"
    THEN LET shouldDismiss ==
                 Abs(event.translationX) > 100 \/ Abs(event.velocityX) > 800
         IN  IF shouldDismiss
             THEN <<[id |-> id, kind |-> "swipeOut", event |-> event,
                     toValue |-> IF event.translationX > 0 THEN SCREEN_WIDTH
                                 ELSE 0 - SCREEN_WIDTH]>>
             ELSE <<[id |-> id, kind |-> "spring", event |-> event, toValue |-> 0]>>
    ELSE <<>>

\* handleClose, the onPress of the close button
ToastItem_handleClose(id) ==
    <<[id |-> id, kind |-> "close", event |-> [state |-> "PRESS"], toValue |-> 0]>>

RemoveAt(a, i) == SubSeq(a, 1, i - 1) \o SubSeq(a, i + 1, Len(a))

ToastRest == <<uiVars, cliVars, renderVars>>

\* a caller adds a toast; its timer, if any, comes due within the time followed
AddToast ==
    /\ nextId <= MaxAdds
    /\ \E toast \in ToastInputs :
          /\ now + (IF toast.duration = Undefined THEN 2000 ELSE toast.duration[1])
                <= MaxTime
          /\ addToast(toast)
    /\ UNCHANGED <<maxToasts, anims, now, gestures, onDismissCalls>>
    /\ UNCHANGED ToastRest

\* time passes
Tick ==
    /\ now + 1000 <= MaxTime
    /\ now' = now + 1000
    /\ UNCHANGED <<toasts, maxToasts, timers, items, anims, nextId, gestures,
                   onDismissCalls>>
    /\ UNCHANGED ToastRest

\* a timeout scheduled by addToast runs: removeToast(id)
TimerFires ==
    /\ \E tm \in timers :
          /\ tm.due <= now
          /\ removeToast(tm.id)
          /\ timers' = timers \ {tm}
    /\ UNCHANGED <<maxToasts, anims, nextId, now, gestures, onDismissCalls>>
    /\ UNCHANGED ToastRest

\* a pan on a mounted toast is over: translateX followed the finger (a running
\* spring of the item is stopped by it), then handleStateChange runs
ToastPan ==
    /\ gestures < MaxGestures
    /\ \E id \in DOMAIN items, event \in PanEvents :
          /\ items' = [items EXCEPT ![id].translateX = event.translationX]
          /\ anims' = SelectSeq(anims, LAMBDA a : ~(a.id = id /\ a.kind = "spring"))
                      \o ToastItem_handleStateChange(id, event)
    /\ gestures' = gestures + 1
    /\ UNCHANGED <<toasts, maxToasts, timers, nextId, now, onDismissCalls>>
    /\ UNCHANGED ToastRest

\* the close button of a mounted toast is pressed
ToastClose ==
    /\ gestures < MaxGestures
    /\ \E id \in DOMAIN items :
          /\ anims' = anims \o ToastItem_handleClose(id)
    /\ gestures' = gestures + 1
    /\ UNCHANGED <<toasts, maxToasts, timers, items, nextId, now, onDismissCalls>>
    /\ UNCHANGED ToastRest

\* an animation is over.  A spring leaves the item at rest; the swipe-out and
\* the close animation call back: onDismiss() of the container, which is
\* removeToast(toast.id), then toast.onDismiss of the toast
AnimationEnd ==
    /\ \E i \in 1..Len(anims) :
          LET a == anims[i] IN
          /\ anims' = RemoveAt(anims, i)
          /\ IF a.kind = "spring"
             THEN /\ items' = IF a.id \in DOMAIN items
                              THEN [items EXCEPT ![a.id].translateX = a.toValue]
                              ELSE items
                  /\ UNCHANGED <<toasts, onDismissCalls>>
             ELSE /\ removeToast(a.id)
                  /\ onDismissCalls' = Append(onDismissCalls, a.id)
    /\ UNCHANGED <<maxToasts, timers, nextId, now, gestures>>
    /\ UNCHANGED ToastRest

\* setMaxToasts of the context
SetMaxToasts ==
    /\ \E max \in {1, 2} :
          /\ max # maxToasts
          /\ maxToasts' = max
    /\ UNCHANGED <<toasts, timers, items, anims, nextId, now, gestures, onDismissCalls>>
    /\ UNCHANGED ToastRest

\* removeAllToasts of the context
removeAllToasts ==
    /\ toasts # <<>>
    /\ toasts' = <<>>
    /\ items' = Render(toasts', items)
    /\ UNCHANGED <<maxToasts, timers, anims, nextId, now, gestures, onDismissCalls>>
    /\ UNCHANGED ToastRest

InitToast ==
    /\ UiOff
    /\ CliOff
    /\ RenderOff
    /\ toasts = <<>>
    /\ \E m \in MaxToastsProps : maxToasts = IF m = Undefined THEN 3 ELSE m[1]
    /\ timers = {}
    /\ items = <<>>
    /\ anims = <<>>
    /\ nextId = 1
    /\ now = 0
    /\ gestures = 0
    /\ onDismissCalls = <<>>

NextToast ==
    \/ AddToast
    \/ Tick
    \/ TimerFires
    \/ ToastPan
    \/ ToastClose
    \/ AnimationEnd
    \/ SetMaxToasts
    \/ removeAllToasts

SpecToast == InitToast /\ [][NextToast]_vars

\* setTimeout callbacks run once they are due, and time does not stop
SpecToastFair == SpecToast /\ WF_vars(Tick) /\ WF_vars(TimerFires)

\* ------------------------------------------------------------------------
\* Swipe to dismiss a toast: C12
\* ------------------------------------------------------------------------

\* the step delivers a pan or a close press
GestureStep == gestures' = gestures + 1

\* the step is the end of the animation anims[i]
EndOf(i) == gestures' = gestures /\ anims' = RemoveAt(anims, i)

OverThreshold(event) ==
    \/ event.translationX > 100 \/ event.translationX < 0 - 100
    \/ event.velocityX > 800 \/ event.velocityX < 0 - 800

\* C12: a pan that ends on a toast starts the swipe-out exactly when
\* |translationX| > 100 or |velocityX| > 800, and otherwise a spring of the
\* horizontal offset back to 0; a pan that does not end (it is cancelled)
\* starts nothing.  The gesture itself leaves the toast list as it is; when
\* the swipe-out is over the toast is not in the list, and when the spring is
\* over the list is as it was and the offset of the toast is 0.
C12_SwipeDismissesOverThreshold ==
    /\ [](\A i \in 1..Len(anims) :
             LET a == anims[i] IN
             /\ a.kind = "swipeOut"
                   <=> (a.event.state = "END" /\ OverThreshold(a.event))
             /\ a.kind = "spring"
                   <=> (a.event.state = "END" /\ ~OverThreshold(a.event))
             /\ a.kind = "spring" => a.toValue = 0
             /\ a.event.state \in {"END", "PRESS"})
    /\ [][/\ GestureStep => toasts' = toasts
          /\ \A i \in 1..Len(anims) :
                EndOf(i) =>
                   /\ anims[i].kind = "swipeOut" => anims[i].id \notin Ids(toasts')
                   /\ anims[i].kind = "spring"
                         => /\ toasts' = toasts
                            /\ anims[i].id \in Ids(toasts)
                                  => items'[anims[i].id].translateX = 0]_vars

\* a pan ended on the only toast with both values at their thresholds: the
\* spring is over, the toast is in the list and at rest, nothing was dismissed
C12_Witness ==
    /\ nextId = 2
    /\ gestures = 1
    /\ anims = <<>>
    /\ onDismissCalls = <<>>
    /\ 1 \in Ids(toasts)
    /\ items[1].translateX = 0

\* ------------------------------------------------------------------------
\* Swipe to close a drawer: C13
\* ------------------------------------------------------------------------

\* the step delivers the end or the cancellation of a pan to a drawer
PanEnded == mounted \in Drawers /\ state.isDragging /\ ~state'.isDragging

\* the drawer is a dismissible bottom drawer and the pan went down by more
\* than 100 or was faster than 1000 downwards
ShouldClose(p, event) ==
    /\ p.side = "bottom" /\ p.dismissible
    /\ event.translationY > 100 \/ event.velocityY > 1000

CloseRequested(effs) == Named(effs, "onOpenChange") = <<Call("onOpenChange", <<FALSE>>)>>

SCREEN_HEIGHT == 800

\* a || b on numbers
OrElse(a, b) == IF a # 0 THEN a ELSE b

Max(a, b) == IF a >= b THEN a ELSE b

\* the trigger as measure and measureInWindow report it: a rectangle on the
\* screen, of no size while the trigger is not laid out
TriggerRects ==
    {r \in [x : {0, 10, 16, 100, 250}, y : {60, 300, 560, 700},
            width : {0, 100, 200, 368, 380, 400}, height : {44}] :
        r.x + r.width <= SCREEN_WIDTH}

\* useSafeAreaInsets()
Insets == [top : {0, 47}, bottom : {0, 34}]

\* useState({ top: 0, left: 0, width: 200, showAbove: false })
SelectContent_useState == [top |-> 0, left |-> 0, width |-> 200, showAbove |-> FALSE]

\* measurePosition, from the callback of measureInWindow to setPosition
SelectContent_measurePosition(position, window, page, insets) ==
    IF window.width > 0 /\ window.height > 0
    THEN LET triggerX == OrElse(page.x, window.x)
             triggerY == OrElse(page.y, window.y)
             triggerWidth == OrElse(page.width, window.width)
             triggerHeight == OrElse(page.height, window.height)
             spaceBelow == SCREEN_HEIGHT - (triggerY + triggerHeight) - insets.bottom - 20
             spaceAbove == triggerY - insets.top - 20
             dropdownHeight == 200
             below == spaceBelow >= dropdownHeight \/ spaceBelow > spaceAbove
             margin == 16
             minWidth == 200
             dropdownWidth == Max(triggerWidth, minWidth)
             left1 == IF triggerX + dropdownWidth > SCREEN_WIDTH - margin
                      THEN SCREEN_WIDTH - dropdownWidth - margin
                      ELSE triggerX
             finalLeft == IF left1 < margin THEN margin ELSE left1
         IN  [top |-> IF below THEN triggerY + triggerHeight + 4
                      ELSE Max(insets.top + 20, triggerY - dropdownHeight - 4),
              left |-> finalLeft, width |-> dropdownWidth, showAbove |-> ~below]
    ELSE position

\* the context accessor hooks and the context each reads; every context is
\* created with the default value undefined
Hooks ==
    [useToast |-> "ToastContext", useAccordion |-> "AccordionContext",
     useAccordionItem |-> "AccordionItemContext", useSelect |-> "SelectContext",
     useAlertDialog |-> "AlertDialogContext", useAlert |-> "AlertContext",
     useDrawer |-> "DrawerContext", useDrawerContent |-> "DrawerContentContext",
     useInputOTPContext |-> "InputOTPContext"]

Contexts == {Hooks[h] : h \in DOMAIN Hooks}

\* a mounted <Context.Provider value={...}>: the value is the object the
\* component built in that render
Providers == [context : Contexts, value : {[object |-> 1], [object |-> 2]}]

\* the providers above a consumer, outermost first
Ancestors == {<<>>} \cup {<<a>> : a \in Providers}
             \cup {<<a, b>> : a \in Providers, b \in Providers}

\* useContext(context): the value of the nearest provider of that context,
\* the default of the context when there is none
useContext(context, ancestors) ==
    LET own == {i \in 1..Len(ancestors) : ancestors[i].context = context}
    IN  IF own = {} THEN Undefined
        ELSE Some(ancestors[CHOOSE i \in own : \A j \in own : j <= i].value)

\* a hook that hands the missing context to its caller
useHook_returnsUndefined(hook, ancestors) ==
    [threw |-> FALSE, value |-> useContext(Hooks[hook], ancestors)]

\* const context = useContext(C); if (!context) throw new Error(...); return context
useHook(hook, ancestors) ==
    LET context == useContext(Hooks[hook], ancestors)
    IN  IF context = Undefined
        THEN [threw |-> TRUE, value |-> Undefined]
        ELSE [threw |-> FALSE, value |-> context]

\* ------------------------------------------------------------------------
\* Single renders: the colours of Checkbox and Switch
\* ------------------------------------------------------------------------

\* checkboxVariants.variant, the rows 'default' and 'destructive' and the
\* colours the three getters read
checkboxVariants ==
    [default |->
        [backgroundColor |-> "#ffffff", borderColor |-> "#e4e4e7",
         checkedBackgroundColor |-> "#18181b", checkedBorderColor |-> "#18181b",
         textColor |-> "#09090b",
         disabledBackgroundColor |-> "#fafafa", disabledBorderColor |-> "#e4e4e7",
         disabledTextColor |-> "#a1a1aa",
         focusBorderColor |-> "#18181b", errorBorderColor |-> "#ef4444"],
     destructive |->
        [backgroundColor |-> "#ffffff", borderColor |-> "#e4e4e7",
         checkedBackgroundColor |-> "#ef4444", checkedBorderColor |-> "#ef4444",
         textColor |-> "#09090b",
         disabledBackgroundColor |-> "#fafafa", disabledBorderColor |-> "#e4e4e7",
         disabledTextColor |-> "#a1a1aa",
         focusBorderColor |-> "#ef4444", errorBorderColor |-> "#ef4444"]]

\* switchVariants.variant, the rows 'default' and 'destructive' with the
\* colours of currentTheme (lightTheme) filled in
switchVariants ==
    [default |->
        [backgroundColor |-> "#e5e5e5", thumbColor |-> "#ffffff",
         checkedBackgroundColor |-> "#171717", checkedThumbColor |-> "#fafafa",
         disabledBackgroundColor |-> "#f5f5f5", disabledThumbColor |-> "#ffffff",
         disabledCheckedBackgroundColor |-> "#737373",
         disabledCheckedThumbColor |-> "#f5f5f5",
         textColor |-> "#0a0a0a", disabledTextColor |-> "#737373"],
     destructive |->
        [backgroundColor |-> "#e5e5e5", thumbColor |-> "#ffffff",
         checkedBackgroundColor |-> "#ef4444", checkedThumbColor |-> "#fafafa",
         disabledBackgroundColor |-> "#f5f5f5", disabledThumbColor |-> "#ffffff",
         disabledCheckedBackgroundColor |-> "#fca5a5",
         disabledCheckedThumbColor |-> "#f5f5f5",
         textColor |-> "#0a0a0a", disabledTextColor |-> "#737373"]]

\* the values of a colour prop: left out, the empty string, a colour of the caller
ColorProps == {Undefined, Some(""), Some("#c0c0c0")}

\* a || b on an optional string
OrColor(a, b) == IF a # Undefined /\ a[1] # "" THEN a[1] ELSE b

\* one render of a Checkbox: its props and, in isChecked and isFocused, its state
CheckboxRenders ==
    [fn : {"style"}, component : {"Checkbox"}, variant : DOMAIN checkboxVariants,
     disabled : BOOLEAN, isChecked : BOOLEAN, indeterminate : BOOLEAN,
     isInvalid : BOOLEAN, isFocused : BOOLEAN,
     backgroundColor : ColorProps, checkedBackgroundColor : ColorProps,
     borderColor : ColorProps, checkedBorderColor : ColorProps,
     textColor : ColorProps]

\* one render of a Switch
SwitchRenders ==
    [fn : {"style"}, component : {"Switch"}, variant : DOMAIN switchVariants,
     disabled : BOOLEAN, isChecked : BOOLEAN,
     backgroundColor : ColorProps, checkedBackgroundColor : ColorProps,
     thumbColor : ColorProps, checkedThumbColor : ColorProps,
     textColor : ColorProps]

\* a getter that looks at the override before it looks at disabled
Checkbox_getBackgroundColor_overrideFirst(r) ==
    LET variantStyle == checkboxVariants[r.variant]
    IN  IF r.isChecked \/ r.indeterminate
        THEN OrColor(r.checkedBackgroundColor,
                     IF r.disabled THEN variantStyle.disabledBackgroundColor
                     ELSE variantStyle.checkedBackgroundColor)
        ELSE OrColor(r.backgroundColor,
                     IF r.disabled THEN variantStyle.disabledBackgroundColor
                     ELSE variantStyle.backgroundColor)

\* getBackgroundColor of Checkbox
Checkbox_getBackgroundColor(r) ==
    LET variantStyle == checkboxVariants[r.variant]
    IN  IF r.disabled THEN variantStyle.disabledBackgroundColor
        ELSE IF r.isChecked \/ r.indeterminate
        THEN OrColor(r.checkedBackgroundColor, variantStyle.checkedBackgroundColor)
        ELSE OrColor(r.backgroundColor, variantStyle.backgroundColor)

\* getBorderColor of Checkbox
Checkbox_getBorderColor(r) ==
    LET variantStyle == checkboxVariants[r.variant]
    IN  IF r.disabled THEN variantStyle.disabledBorderColor
        ELSE IF r.isInvalid THEN variantStyle.errorBorderColor
        ELSE IF r.isFocused THEN variantStyle.focusBorderColor
        ELSE IF r.isChecked \/ r.indeterminate
        THEN OrColor(r.checkedBorderColor, variantStyle.checkedBorderColor)
        ELSE OrColor(r.borderColor, variantStyle.borderColor)

\* getTextColor of Checkbox
Checkbox_getTextColor(r) ==
    LET variantStyle == checkboxVariants[r.variant]
    IN  IF r.disabled THEN variantStyle.disabledTextColor
        ELSE OrColor(r.textColor, variantStyle.textColor)

\* getCurrentBackgroundColor of Switch
Switch_getCurrentBackgroundColor(r) ==
    LET variantStyle == switchVariants[r.variant]
    IN  IF r.disabled
        THEN IF r.isChecked THEN variantStyle.disabledCheckedBackgroundColor
             ELSE variantStyle.disabledBackgroundColor
        ELSE IF r.isChecked
        THEN OrColor(r.checkedBackgroundColor, variantStyle.checkedBackgroundColor)
        ELSE OrColor(r.backgroundColor, variantStyle.backgroundColor)

\* getCurrentThumbColor of Switch
Switch_getCurrentThumbColor(r) ==
    LET variantStyle == switchVariants[r.variant]
    IN  IF r.disabled
        THEN IF r.isChecked THEN variantStyle.disabledCheckedThumbColor
             ELSE variantStyle.disabledThumbColor
        ELSE IF r.isChecked
        THEN OrColor(r.checkedThumbColor, variantStyle.checkedThumbColor)
        ELSE OrColor(r.thumbColor, variantStyle.thumbColor)

\* getCurrentTextColor of Switch
Switch_getCurrentTextColor(r) ==
    LET variantStyle == switchVariants[r.variant]
    IN  IF r.disabled THEN variantStyle.disabledTextColor
        ELSE OrColor(r.textColor, variantStyle.textColor)

\* the colours one render puts on the box (or track), the border (or thumb)
\* and the label
Toggle_colors(r) ==
    IF r.component = "Checkbox"
    THEN [backgroundColor |-> Checkbox_getBackgroundColor(r),
          borderColor |-> Checkbox_getBorderColor(r),
          textColor |-> Checkbox_getTextColor(r)]
    ELSE [backgroundColor |-> Switch_getCurrentBackgroundColor(r),
          thumbColor |-> Switch_getCurrentThumbColor(r),
          textColor |-> Switch_getCurrentTextColor(r)]

\* ------------------------------------------------------------------------
\* Single renders: the helper line of Checkbox, Switch and Input
\* ------------------------------------------------------------------------

\* the values of helperText and of errorMessage
HelperTexts == Opt({"", "Enter a value"})

ErrorMessages == Opt({"", "Required"})

\* one Checkbox or Switch with its validation props
ToggleFields ==
    [fn : {"field"}, component : Toggles, isInvalid : BOOLEAN,
     helperText : HelperTexts, errorMessage : ErrorMessages,
     checked : Opt(BOOLEAN), defaultChecked : BOOLEAN,
     disabled : BOOLEAN, readOnly : BOOLEAN]

\* one Input with its validation props
InputFields ==
    [fn : {"field"}, component : {"Input"}, isInvalid : BOOLEAN,
     helperText : HelperTexts, errorMessage : ErrorMessages,
     disabled : BOOLEAN, readOnly : BOOLEAN]

\* a || b seen as a condition, on optional strings
EitherText(a, b) == (a # Undefined /\ a[1] # "") \/ (b # Undefined /\ b[1] # "")

\* a helper line that never shows the error message
HelperLine_alwaysHelper(r) ==
    IF EitherText(r.helperText, r.errorMessage)
    THEN Some([text |-> r.helperText, error |-> r.isInvalid])
    ELSE Undefined

\* {(helperText || errorMessage) && (<Text style={{color: isInvalid ? ... }}>
\*     {isInvalid ? errorMessage : helperText}</Text>)}
HelperLine(r) ==
    IF EitherText(r.helperText, r.errorMessage)
    THEN Some([text |-> IF r.isInvalid THEN r.errorMessage ELSE r.helperText,
               error |-> r.isInvalid])
    ELSE Undefined

\* <TextInput onChangeText={onChangeText} editable={!disabled && !readOnly}/>
\* and the user types a text
Input_changeText(r, text) ==
    [state |-> <<>>,
     effects |-> When(~r.disabled /\ ~r.readOnly, Call("onChangeText", <<text>>))]

\* the user presses the Checkbox or the Switch, or types into the Input
Field_handle(r) ==
    CASE r.component = "Checkbox" -> Checkbox_handleToggle(r, Checkbox_useState(r))
      [] r.component = "Switch" -> Switch_handleToggle(r, Switch_useState(r))
      [] r.component = "Input" -> Input_changeText(r, "a")

\* ------------------------------------------------------------------------
\* addToast calls between two renders of ToastProvider
\* ------------------------------------------------------------------------

\* what one addToast call reads outside the provider: Date.now() and the nine
\* characters cut from Math.random().toString(36)
Clock == {0, 1}

RandomSuffixes == {"k3x9a1b2c", "p0q8r7s6t"}

\* `toast-${Date.now()}-${Math.random().toString(36).substr(2, 9)}`
ToastId(ms, suffix) == <<"toast", ms, suffix>>

\* the toasts the provider holds at the render the calls are made from: they
\* were added earlier (Date.now() was smaller)
PrevToasts ==
    {<<>>,
     <<[id |-> ToastId(-1, "k3x9a1b2c"), title |-> "old1"]>>,
     <<[id |-> ToastId(-1, "p0q8r7s6t"), title |-> "old2"],
       [id |-> ToastId(-1, "k3x9a1b2c"), title |-> "old1"]>>}

\* one to three back-to-back calls: the clock does not go back
CallSeqs ==
    {c \in UNION {[1..n -> [ms : Clock, suffix : RandomSuffixes]] : n \in 1..3} :
        \A i \in 1..(Len(c) - 1) : c[i].ms <= c[i + 1].ms}

Titles == <<"first", "second", "third">>

\* an addToast that builds the new list from the `toasts` of its closure
addToast_update_fromClosure(newToast, closure) ==
    [kind |-> "value",
     value |-> Slice(<<newToast>> \o closure.toasts, closure.maxToasts)]

\* setToasts(prev => [newToast, ...prev].slice(0, maxToasts)): the update
\* queued by addToast; maxToasts is the one of the closure
addToast_update(newToast, closure) ==
    [kind |-> "updater", newToast |-> newToast, maxToasts |-> closure.maxToasts]

\* React applies one queued update of setToasts to the state before it
React_apply(update, prev) ==
    IF update.kind = "updater"
    THEN Slice(<<update.newToast>> \o prev, update.maxToasts)
    ELSE update.value

\* React applies the queue in the order of the calls
RECURSIVE React_applyAll(_, _)
React_applyAll(updates, prev) ==
    IF updates = <<>> THEN prev
    ELSE React_applyAll(Tail(updates), React_apply(Head(updates), prev))

\* the batches followed: the closure of one render and the calls made from it
Batches ==
    [fn : {"batch"}, maxToasts : {1, 2, 3}, toasts : PrevToasts, calls : CallSeqs]

\* the renders followed one at a time
Renderings ==
    [fn : {"measurePosition"}, trigger : TriggerRects, insets : Insets]
    \cup [fn : {"hook"}, hook : DOMAIN Hooks, ancestors : Ancestors]
    \cup CheckboxRenders \cup SwitchRenders
    \cup ToggleFields \cup InputFields
    \cup Batches

\* the Select opens: the effect of SelectContent measures the trigger
Select_measure ==
    /\ rendering.fn = "measurePosition"
    /\ rendered = Undefined
    /\ rendered' = Some(SelectContent_measurePosition(SelectContent_useState,
                            rendering.trigger, rendering.trigger, rendering.insets))
    /\ UNCHANGED rendering
    /\ UNCHANGED <<uiVars, cliVars, toastVars>>

\* a component that calls a context hook renders
Consumer_render ==
    /\ rendering.fn = "hook"
    /\ rendered = Undefined
    /\ rendered' = Some(useHook(rendering.hook, rendering.ancestors))
    /\ UNCHANGED rendering
    /\ UNCHANGED <<uiVars, cliVars, toastVars>>

\* a Checkbox or a Switch renders and resolves its colours
Toggle_render ==
    /\ rendering.fn = "style"
    /\ rendered = Undefined
    /\ rendered' = Some(Toggle_colors(rendering))
    /\ UNCHANGED rendering
    /\ UNCHANGED <<uiVars, cliVars, toastVars>>

\* a Checkbox, Switch or Input with validation props renders
Field_render ==
    /\ rendering.fn = "field"
    /\ rendered = Undefined
    /\ rendered' = Some([line |-> HelperLine(rendering)])
    /\ UNCHANGED rendering
    /\ UNCHANGED <<uiVars, cliVars, toastVars>>

\* the user acts on the rendered field
Field_press ==
    /\ rendering.fn = "field"
    /\ rendered # Undefined
    /\ DOMAIN rendered[1] = {"line"}
    /\ LET r == Field_handle(rendering)
       IN  rendered' = Some([line |-> rendered[1].line,
                             state |-> r.state, effects |-> r.effects])
    /\ UNCHANGED rendering
    /\ UNCHANGED <<uiVars, cliVars, toastVars>>

\* the next addToast call of the batch: it queues its update and returns its id
Batch_addToast ==
    /\ rendering.fn = "batch"
    /\ LET done == IF rendered = Undefined THEN <<>> ELSE rendered[1].returned
           pending == IF rendered = Undefined THEN <<>> ELSE rendered[1].queue
           i == Len(done) + 1
       IN  /\ IF rendered = Undefined THEN TRUE
              ELSE "toasts" \notin DOMAIN rendered[1]
           /\ i <= Len(rendering.calls)
           /\ LET id == ToastId(rendering.calls[i].ms, rendering.calls[i].suffix)
                  newToast == [id |-> id, title |-> Titles[i]]
              IN  rendered' = Some([returned |-> Append(done, id),
                                    queue |-> Append(pending,
                                                addToast_update(newToast, rendering))])
    /\ UNCHANGED rendering
    /\ UNCHANGED <<uiVars, cliVars, toastVars>>

\* the provider renders again: the queued updates are applied
Batch_render ==
    /\ rendering.fn = "batch"
    /\ rendered # Undefined
    /\ "toasts" \notin DOMAIN rendered[1]
    /\ Len(rendered[1].returned) = Len(rendering.calls)
    /\ rendered' = Some([returned |-> rendered[1].returned,
                         queue |-> <<>>,
                         toasts |-> React_applyAll(rendered[1].queue, rendering.toasts)])
    /\ UNCHANGED rendering
    /\ UNCHANGED <<uiVars, cliVars, toastVars>>

InitRender ==
    /\ UiOff
    /\ CliOff
    /\ ToastOff
    /\ rendering \in Renderings
    /\ rendered = Undefined

NextRender ==
    \/ Select_measure
    \/ Consumer_render
    \/ Toggle_render
    \/ Field_render
    \/ Field_press
    \/ Batch_addToast
    \/ Batch_render

SpecRender == InitRender /\ [][NextRender]_vars

\* ------------------------------------------------------------------------
\* The dropdown stays on the screen: C14
\* ------------------------------------------------------------------------

\* C14: the position computed for a measured trigger has its left edge at 16
\* or more and its right edge (left + width, width = max(triggerWidth, 200))
\* at SCREEN_WIDTH - 16 or less; it is below the trigger when the space below
\* is 200 or more or larger than the space above, and otherwise above it with
\* top >= insets.top + 20.
C14_DropdownAvoidsOverflow ==
    (rendering.fn = "measurePosition" /\ rendered # Undefined
        /\ rendering.trigger.width > 0)
        => LET pos == rendered[1]
               t == rendering.trigger
               spaceBelow == SCREEN_HEIGHT - (t.y + t.height) - rendering.insets.bottom - 20
               spaceAbove == t.y - rendering.insets.top - 20
           IN  /\ pos.width = Max(t.width, 200)
               /\ pos.left >= 16
               /\ pos.left + pos.width <= SCREEN_WIDTH - 16
               /\ pos.showAbove <=> ~(spaceBelow >= 200 \/ spaceBelow > spaceAbove)
               /\ ~pos.showAbove => pos.top = t.y + t.height + 4
               /\ pos.showAbove => pos.top >= rendering.insets.top + 20

\* ------------------------------------------------------------------------
\* Context hooks outside their provider: C15
\* ------------------------------------------------------------------------

\* C15: each of useToast, useAccordion, useAccordionItem, useSelect,
\* useAlertDialog, useAlert, useDrawer, useDrawerContent and
\* useInputOTPContext throws in the render that calls it when no provider of
\* its own context is among the ancestors, whatever other providers are, and
\* otherwise returns the value of the nearest provider of its context without
\* throwing.
C15_HooksThrowOutsideProvider ==
    (rendering.fn = "hook" /\ rendered # Undefined)
        => LET own == SelectSeq(rendering.ancestors,
                                LAMBDA a : a.context = Hooks[rendering.hook])
               result == rendered[1]
           IN  /\ result.threw <=> own = <<>>
               /\ ~result.threw => result.value = Some(own[Len(own)].value)

\* useDrawerContent was called under a Drawer but under no DrawerContent: it threw
C15_Witness ==
    /\ rendering.fn = "hook"
    /\ rendering.hook = "useDrawerContent"
    /\ Len(rendering.ancestors) = 1
    /\ rendering.ancestors[1].context = "DrawerContext"
    /\ rendered # Undefined
    /\ rendered[1].threw

\* ------------------------------------------------------------------------
\* Colour overrides of Checkbox and Switch: C16
\* ------------------------------------------------------------------------

\* the box counts as checked: isChecked, or indeterminate on a Checkbox
ShownChecked(r) ==
    r.isChecked \/ (r.component = "Checkbox" /\ r.indeterminate)

\* the name of the override prop, and of the variant cell, that applies to a
\* slot in the current checked state
ApplicableName(r, slot) ==
    IF slot = "textColor" \/ ~ShownChecked(r) THEN slot
    ELSE CASE slot = "backgroundColor" -> "checkedBackgroundColor"
           [] slot = "borderColor" -> "checkedBorderColor"
           [] slot = "thumbColor" -> "checkedThumbColor"

\* the row of the variant table the render reads
VariantRow(r) ==
    IF r.component = "Checkbox" THEN checkboxVariants[r.variant]
    ELSE switchVariants[r.variant]

\* the colour a state flag puts on a slot ahead of every override, if any
StateColor(r, slot) ==
    LET row == VariantRow(r)
    IN  IF r.disabled
        THEN CASE slot = "textColor" -> Some(row.disabledTextColor)
               [] slot = "borderColor" -> Some(row.disabledBorderColor)
               [] slot = "backgroundColor" ->
                    IF r.component = "Switch" /\ r.isChecked
                    THEN Some(row.disabledCheckedBackgroundColor)
                    ELSE Some(row.disabledBackgroundColor)
               [] slot = "thumbColor" ->
                    IF r.isChecked THEN Some(row.disabledCheckedThumbColor)
                    ELSE Some(row.disabledThumbColor)
        ELSE IF slot = "borderColor" /\ r.isInvalid THEN Some(row.errorBorderColor)
        ELSE IF slot = "borderColor" /\ r.isFocused THEN Some(row.focusBorderColor)
        ELSE Undefined

\* C16 as stated: in every combination of the state flags, a supplied
\* (non-empty) override that applies to the current checked state is the resolved colour,
\* and without one the resolved colour is a value of the variant's row.
C16_OverrideBeatsVariantAlways ==
    (rendering.fn = "style" /\ rendered # Undefined)
        => \A slot \in DOMAIN rendered[1] :
              LET override == rendering[ApplicableName(rendering, slot)]
                  row == VariantRow(rendering)
              IN  IF override # Undefined /\ override[1] # ""
                  THEN rendered[1][slot] = override[1]
                  ELSE \E cell \in DOMAIN row : rendered[1][slot] = row[cell]

\* C16: the colours of a disabled Checkbox or Switch are the variant's
\* disabled colours (for a Switch the disabled-checked ones when it is on),
\* and the border of an enabled Checkbox is the variant's errorBorderColor
\* when isInvalid and else its focusBorderColor when focused, whatever
\* overrides are supplied; in every other case a supplied, non-empty override
\* that applies to the current checked state is the resolved colour, and
\* without one the resolved colour is the variant's cell of the same name.
C16_OverrideBeatsVariantUnlessStateColor ==
    (rendering.fn = "style" /\ rendered # Undefined)
        => \A slot \in DOMAIN rendered[1] :
              LET name == ApplicableName(rendering, slot)
                  override == rendering[name]
                  forced == StateColor(rendering, slot)
              IN  rendered[1][slot] =
                    IF forced # Undefined THEN forced[1]
                    ELSE IF override # Undefined /\ override[1] # "" THEN override[1]
                    ELSE VariantRow(rendering)[name]

\* an enabled, checked Checkbox that is neither invalid nor focused shows
\* the checked overrides and not the unchecked ones
C16_Witness ==
    /\ rendering.fn = "style"
    /\ rendering.component = "Checkbox"
    /\ ~rendering.disabled /\ rendering.isChecked
    /\ ~rendering.isInvalid /\ ~rendering.isFocused
    /\ rendering.checkedBackgroundColor = Some("#c0c0c0")
    /\ rendering.backgroundColor = Undefined
    /\ rendering.checkedBorderColor = Some("#c0c0c0")
    /\ rendered # Undefined
    /\ rendered[1].backgroundColor = "#c0c0c0"
    /\ rendered[1].borderColor = "#c0c0c0"

\* ------------------------------------------------------------------------
\* The helper line and isInvalid: C18
\* ------------------------------------------------------------------------

\* C18: Checkbox, Switch and Input render the message line exactly when a
\* (non-empty) helperText or errorMessage is supplied; its text is
\* errorMessage when isInvalid and helperText when not; and isInvalid does
\* not reach the press: a Checkbox or Switch ignores it exactly when disabled
\* or readOnly and otherwise reports the flipped value and, uncontrolled,
\* stores it, and an Input passes the typed text on unless disabled or
\* readOnly.
C18_HelperLineFollowsInvalid ==
    (rendering.fn = "field" /\ rendered # Undefined)
        => LET r == rendering
               out == rendered[1]
               blocked == r.disabled \/ r.readOnly
           IN  /\ out.line # Undefined
                    <=> \/ r.helperText \notin {Undefined, Some("")}
                        \/ r.errorMessage \notin {Undefined, Some("")}
               /\ out.line # Undefined
                    => out.line[1].text
                         = IF r.isInvalid THEN r.errorMessage ELSE r.helperText
               /\ ("effects" \in DOMAIN out /\ r.component \in Toggles)
                    => LET was == IF r.checked # Undefined THEN r.checked[1]
                                  ELSE r.defaultChecked
                       IN  /\ blocked => out.effects = <<>>
                                           /\ out.state.internalChecked = r.defaultChecked
                           /\ ~blocked
                                => /\ \E i \in 1..Len(out.effects) :
                                         out.effects[i] = Call("onCheckedChange", <<~was>>)
                                   /\ out.state.internalChecked
                                        = IF r.checked = Undefined THEN ~was
                                          ELSE r.defaultChecked
               /\ ("effects" \in DOMAIN out /\ r.component = "Input")
                    => out.effects = IF blocked THEN <<>>
                                     ELSE <<Call("onChangeText", <<"a">>)>>

\* an invalid, unchecked, uncontrolled Switch with both texts shows the error
\* message and a press still turns it on
C18_Witness ==
    /\ rendering.fn = "field"
    /\ rendering.component = "Switch"
    /\ rendering.isInvalid
    /\ rendering.helperText = Some("Enter a value")
    /\ rendering.errorMessage = Some("Required")
    /\ rendering.checked = Undefined /\ ~rendering.defaultChecked
    /\ rendered # Undefined
    /\ rendered[1].line = Some([text |-> Some("Required"), error |-> TRUE])
    /\ "state" \in DOMAIN rendered[1]
    /\ rendered[1].state.internalChecked

\* ------------------------------------------------------------------------
\* Auto-dismiss: C19
\* ------------------------------------------------------------------------

\* addToast scheduled a timeout for this toast
Timed(toast) == toast.persistent # Some(TRUE) /\ toast.duration > 0

\* the toast of the list with this id
ToastOf(id) == toasts[CHOOSE i \in 1..Len(toasts) : toasts[i].id = id]

C20_DisabledSelectNeverOpen ==
    mounted = "Select"
        => /\ props.disabled => ~state.isOpen
           /\ (lastPress.part = "item" /\ lastPress.item.disabled)
                => effects = <<>>

\* ------------------------------------------------------------------------
\* The toast limit: C21
\* ------------------------------------------------------------------------

\* C21: in every state reached by addToast, removeToast, removeAllToasts and
\* setMaxToasts calls the provider holds at most maxToasts toasts.
C21_CountWithinMaxToasts ==
    Len(toasts) <= maxToasts

\* ------------------------------------------------------------------------
\* Back-to-back addToast calls: C22
\* ------------------------------------------------------------------------

\* the toasts of the calls, newest first, in front of the ones held before
AllApplied ==
    LET n == Len(rendering.calls)
    IN  [k \in 1..n |->
            [id |-> ToastId(rendering.calls[n + 1 - k].ms,
                            rendering.calls[n + 1 - k].suffix),
             title |-> Titles[n + 1 - k]]]
        \o rendering.toasts

\* the render after the calls has happened
BatchRendered ==
    rendering.fn = "batch" /\ rendered # Undefined /\ "toasts" \in DOMAIN rendered[1]

\* C22 as stated: after the render every call is applied, newest first, only
\* the tail beyond maxToasts is gone, and the ids returned are pairwise
\* distinct.
C22_BatchedAddsDistinctIds ==
    BatchRendered
        => /\ rendered[1].toasts
                = SubSeq(AllApplied, 1, Len(rendered[1].toasts))
           /\ \A i, j \in 1..Len(rendered[1].returned) :
                 i # j => rendered[1].returned[i] # rendered[1].returned[j]

\* C22: after the render that follows back-to-back addToast calls every call
\* is applied: the list is the new toasts, newest first, in front of the old
\* ones, cut after maxToasts entries (never longer than that, and shorter
\* only when there are fewer toasts), so only the tail is evicted; call i
\* returned the id built from its own Date.now() and random suffix, and two
\* calls returned the same id exactly when both of these were equal.
C22_BatchedAddsAllApplied ==
    BatchRendered
        => LET out == rendered[1]
               n == Len(rendering.calls)
           IN  /\ Len(out.toasts)
                    = IF Len(AllApplied) < rendering.maxToasts
                      THEN Len(AllApplied) ELSE rendering.maxToasts
               /\ out.toasts = SubSeq(AllApplied, 1, Len(out.toasts))
               /\ Len(out.returned) = n
               /\ \A i \in 1..n :
                     out.returned[i]
                        = ToastId(rendering.calls[i].ms, rendering.calls[i].suffix)
               /\ \A i, j \in 1..n :
                     out.returned[i] = out.returned[j]
                        <=> rendering.calls[i] = rendering.calls[j]

\* three calls, the first two with different ids, on a provider that held
\* two toasts and keeps three:
\* the three new toasts are shown and both old ones are gone
C22_Witness ==
    /\ BatchRendered
    /\ rendering.maxToasts = 3
    /\ Len(rendering.toasts) = 2
    /\ Len(rendering.calls) = 3
    /\ rendering.calls[1] # rendering.calls[2]
    /\ Len(rendered[1].toasts) = 3
    /\ rendered[1].toasts[1].title = "third"
    /\ rendered[1].toasts[3].title = "first"

\* ------------------------------------------------------------------------
\* Timer, dismissal and eviction on the same toast: C23
\* ------------------------------------------------------------------------

\* the place of a toast in a list
PosOf(ts, id) == CHOOSE i \in 1..Len(ts) : ts[i].id = id

\* every toast of `new` is a toast of `old`, and they come in the order of `old`
OrderKept(old, new) ==
    /\ \A i \in 1..Len(new) :
          new[i].id \in Ids(old) /\ new[i] = old[PosOf(old, new[i].id)]
    /\ \A i, j \in 1..Len(new) :
          i < j => PosOf(old, new[i].id) < PosOf(old, new[j].id)

\* the step took exactly the toast `id` off the list, if it was on it
TookOff(id) ==
    /\ Ids(toasts') = Ids(toasts) \ {id}
    /\ OrderKept(toasts, toasts')
    /\ id \notin Ids(toasts) => toasts' = toasts

Radio_isChecked(p, s, value) == RadioGroup_currentValue(p, s) = Some(value)

\* the Radios of the group that are checked
CheckedRadios == {v \in Values : Radio_isChecked(props, state, v)}

\* a Radio of the group was pressed in this step
RadioPressed == mounted = "RadioGroup" /\ presses' = presses + 1

\* the press was not ignored: neither the group nor the Radio is disabled,
\* and the Radio is not readOnly
RadioEnabled(p, item) == ~p.disabled /\ ~item.disabled /\ ~item.readOnly

\* C24 as stated: at most one Radio is checked, and the press of an enabled
\* Radio makes the group value that Radio's value and calls onValueChange
\* with it (so pressing the selected Radio keeps it selected).
C24_PressSelectsRadio ==
    /\ [](mounted = "RadioGroup" => Cardinality(CheckedRadios) <= 1)
    /\ [][(RadioPressed /\ RadioEnabled(props, lastPress'.item))
            => /\ RadioGroup_currentValue(props', state') = Some(lastPress'.item.value)
               /\ \E i \in 1..Len(effects') :
                     effects'[i] = Call("onValueChange", <<lastPress'.item.value>>)]_vars

\* C24: at most one Radio of a RadioGroup is checked.  The press of an
\* enabled Radio calls onValueChange with its value; in an uncontrolled group
\* it also makes the group value that value, so pressing the selected Radio
\* keeps it selected and nothing clears the selection; in a controlled group
\* the value stays the `value` prop until the parent changes it.  The press
\* of a disabled or readOnly Radio, or of a Radio in a disabled group,
\* changes nothing and calls nothing.
C24_PressSelectsUncontrolledRadio ==
    /\ [](mounted = "RadioGroup" => Cardinality(CheckedRadios) <= 1)
    /\ [][RadioPressed
            => LET item == lastPress'.item
               IN  IF RadioEnabled(props, item)
                   THEN /\ \E i \in 1..Len(effects') :
                              effects'[i] = Call("onValueChange", <<item.value>>)
                        /\ props.value = Undefined
                             => /\ RadioGroup_currentValue(props', state')
                                     = Some(item.value)
                                /\ Radio_isChecked(props', state', item.value)
                        /\ props.value # Undefined
                             => /\ state' = state
                                /\ RadioGroup_currentValue(props', state') = props.value
                   ELSE state' = state /\ effects' = <<>>]_vars

\* the Radio selected by defaultValue in an uncontrolled group was pressed,
\* as the first press: it is still the one checked Radio, and onValueChange
\* was called with its value
C24_Witness ==
    /\ mounted = "RadioGroup"
    /\ props.value = Undefined
    /\ props.defaultValue = Some("a")
    /\ plainSinceMount
    /\ presses = 1
    /\ lastPress.part = "item"
    /\ lastPress.item.value = "a"
    /\ CheckedRadios = {"a"}
    /\ effects = <<SetState("setInternalValue", Some("a")),
                   Call("onValueChange", <<"a">>), Call("onPress", <<>>)>>

\* ------------------------------------------------------------------------
\* One open item in a single Accordion: C25
\* ------------------------------------------------------------------------

\* isOpen of an AccordionItem of a single Accordion: accordionValue === value
AccordionItem_isOpen(p, s, value) == Accordion_currentValue(p, s) = AString(value)

\* the open items of the mounted Accordion
OpenItems(p, s) == {v \in Values : AccordionItem_isOpen(p, s, v)}

\* an item of a single Accordion was pressed in this step
SingleItemPressed ==
    mounted = "Accordion" /\ props.type = "single" /\ presses' = presses + 1

\* the open items a press on `item` should leave
AfterPress(p, s, item) ==
    IF item.disabled THEN OpenItems(p, s)
    ELSE IF item.value \in OpenItems(p, s)
    THEN (IF p.collapsible THEN {} ELSE {item.value})
    ELSE {item.value}

\* C25 as stated: at most one item of a single Accordion is open; the press
\* of a closed item opens it and closes the open one, the press of the open
\* item closes it when collapsible and leaves it open when not, and the press
\* of a disabled item changes nothing.
C25_PressOpensItem ==
    /\ []((mounted = "Accordion" /\ props.type = "single")
            => Cardinality(OpenItems(props, state)) <= 1)
    /\ [][SingleItemPressed
            => OpenItems(props', state') = AfterPress(props, state, lastPress'.item)]_vars

\* C25: at most one item of a single Accordion is open.  In an uncontrolled
\* one the press of a closed item opens it and closes the open one, and the
\* press of the open item closes it when collapsible is true and leaves it
\* open when collapsible is false.  In a controlled one the press changes no
\* state: the open item stays the one named by the `value` prop, and
\* onValueChange is called with the value asked for (the item's value, or
\* undefined for the open item of a collapsible Accordion).  The press of a
\* disabled item changes nothing and calls nothing.
C25_PressOpensUncontrolledItem ==
    /\ []((mounted = "Accordion" /\ props.type = "single")
            => Cardinality(OpenItems(props, state)) <= 1)
    /\ [][SingleItemPressed
            => LET item == lastPress'.item
                   asked == IF item.value \in OpenItems(props, state) /\ props.collapsible
                            THEN AUndefined ELSE AString(item.value)
               IN  IF item.disabled
                   THEN state' = state /\ effects' = <<>>
                   ELSE IF props.value = AUndefined
                   THEN OpenItems(props', state') = AfterPress(props, state, item)
                   ELSE /\ state' = state
                        /\ OpenItems(props', state') = OpenItems(props, state)
                        /\ effects' = <<Call("onValueChange", <<asked>>)>>]_vars

\* item b of an uncontrolled, collapsible single Accordion that opened with
\* item a was pressed first: b is open and a is closed
C25_Witness ==
    /\ mounted = "Accordion"
    /\ props.type = "single"
    /\ props.value = AUndefined
    /\ props.defaultValue = AString("a")
    /\ plainSinceMount
    /\ presses = 1
    /\ lastPress.part = "item"
    /\ lastPress.item.value = "b"
    /\ OpenItems(props, state) = {"b"}

\* ------------------------------------------------------------------------
\* Presses on a disabled or readOnly Checkbox or Switch: C26
\* ------------------------------------------------------------------------

\* isChecked of the mounted Checkbox or Switch
Toggle_isChecked(m, p, s) ==
    IF m = "Checkbox" THEN Checkbox_isChecked(p, s) ELSE Switch_isChecked(p, s)

\* C26: a press on a Checkbox or Switch that is disabled or readOnly, with
\* `checked` supplied or not, leaves internalChecked and isChecked as they
\* were, calls no state setter and invokes neither onCheckedChange nor
\* onPress.
C26_BlockedPressDoesNothing ==
    [][(/\ mounted \in Toggles
        /\ presses' = presses + 1
        /\ props.disabled \/ props.readOnly)
          => /\ state' = state
             /\ Toggle_isChecked(mounted, props', state')
                  = Toggle_isChecked(mounted, props, state)
             /\ effects' = <<>>]_vars

\* a readOnly, uncontrolled Switch that is on was pressed twice: it is still
\* on and nothing was called
C26_Witness ==
    /\ mounted = "Switch"
    /\ props.checked = Undefined
    /\ props.defaultChecked
    /\ props.readOnly /\ ~props.disabled
    /\ presses = 2
    /\ lastPress = Part("track")
    /\ state.internalChecked
    /\ effects = <<>>

\* ------------------------------------------------------------------------
\* InputOTP
\* ------------------------------------------------------------------------
\* A string is the sequence of its characters; an array of strings, as
\* split('') makes it, is a sequence of strings, and a hole of the array is
\* the empty string, which is what join('') makes of it.

\* the characters /^[0-9]$/ accepts
Digits == {"0", "1", "2", "3", "4", "5", "6", "7", "8", "9"}

\* pattern.test(char) for PATTERNS.NUMERIC and PATTERNS.ANY
PATTERNS_test(pattern, char) ==
    CASE pattern = "NUMERIC" -> char \in Digits
      [] pattern = "ANY" -> char # "\n"

\* an uncontrolled InputOTP of three slots that starts empty
InputOTPProps ==
    [value : {Undefined}, defaultValue : {<<>>}, maxLength : {3},
     disabled : BOOLEAN, pattern : {"NUMERIC", "ANY"},
     placeholder : {<<>>, <<"-">>}]

\* useState(defaultValue || '')
InputOTP_useState(p) == [internalValue |-> p.defaultValue]

\* isControlled ? controlledValue : internalValue
InputOTP_value(p, s) == IF p.value # Undefined THEN p.value[1] ELSE s.internalValue

\* str.slice(0, n) and str.substring(0, n)
StrSlice(str, n) == SubSeq(str, 1, IF n < Len(str) THEN n ELSE Len(str))

\* str.padEnd(n, fill)
PadEnd(str, n, fill) ==
    IF Len(str) >= n \/ fill = <<>> THEN str
    ELSE str \o [i \in 1..(n - Len(str)) |-> fill[((i - 1) % Len(fill)) + 1]]

\* str.split('')
Split(str) == [i \in 1..Len(str) |-> <<str[i]>>]

\* array[index] = element, index counted from 0
ArraySet(array, index, element) ==
    IF index < Len(array) THEN [array EXCEPT ![index + 1] = element]
    ELSE array \o [i \in 1..(index - Len(array)) |-> <<>>] \o <<element>>

\* array.join('')
RECURSIVE Join(_)
Join(array) == IF array = <<>> THEN <<>> ELSE Head(array) \o Join(Tail(array))

\* setValue
InputOTP_setValue(p, s, newValue) ==
    LET limitedValue == StrSlice(newValue, p.maxLength)
        isControlled == p.value # Undefined
    IN  [state |-> IF ~isControlled THEN [s EXCEPT !.internalValue = limitedValue]
                   ELSE s,
         effects |-> When(~isControlled, SetState("setInternalValue", limitedValue))
                     \o <<Call("onValueChange", <<limitedValue>>)>>
                     \o When(Len(limitedValue) = p.maxLength,
                             Call("onComplete", <<limitedValue>>))]

\* handlePaste, once the clipboard has been read
InputOTP_handlePaste(p, s, clipboardData) ==
    IF clipboardData # <<>>
    THEN LET filteredData == SelectSeq(clipboardData,
                                       LAMBDA char : PATTERNS_test(p.pattern, char))
             r == InputOTP_setValue(p, s, filteredData)
             nextEmptyIndex == IF Len(filteredData) < p.maxLength - 1
                               THEN Len(filteredData) ELSE p.maxLength - 1
         IN  [state |-> r.state,
              effects |-> r.effects \o <<SetState("setActiveIndex", nextEmptyIndex)>>]
    ELSE [state |-> s, effects |-> <<>>]

\* handleKeyPress
InputOTP_handleKeyPress(p, s, index, key) ==
    LET value == InputOTP_value(p, s)
    IN  IF p.disabled \/ key # "Backspace"
        THEN [state |-> s, effects |-> <<>>]
        ELSE IF index < Len(value)
        THEN InputOTP_setValue(p, s, Join(ArraySet(Split(value), index, <<>>)))
        ELSE IF index > 0
        THEN LET prevIndex == index - 1
                 r == InputOTP_setValue(p, s,
                          Join(ArraySet(Split(value), prevIndex, <<>>)))
             IN  [state |-> r.state,
                  effects |-> r.effects \o <<SetState("setActiveIndex", prevIndex)>>]
        ELSE [state |-> s, effects |-> <<>>]

\* handleTextChange
InputOTP_handleTextChange(p, s, index, text) ==
    LET value == InputOTP_value(p, s)
    IN  IF p.disabled \/ text = <<>>
           \/ ~PATTERNS_test(p.pattern, text[Len(text)])
        THEN [state |-> s, effects |-> <<>>]
        ELSE LET char == text[Len(text)]
                 newValue == ArraySet(Split(PadEnd(value, index, p.placeholder)),
                                      index, <<char>>)
                 r == InputOTP_setValue(p, s, StrSlice(Join(newValue), p.maxLength))
             IN  [state |-> r.state,
                  effects |-> r.effects
                              \o When(index < p.maxLength - 1,
                                      SetState("setActiveIndex", index + 1))]

\* what onChangeText of a slot hands over: nothing, one character, or more
\* than one from a keyboard that ignores maxLength={1}
Texts == {<<>>, <<"1">>, <<"2">>, <<"a">>, <<"1", "2">>}

\* what the clipboard holds
Clipboards == {<<>>, <<"1", "a", "2">>, <<"1", "2", "1", "2">>}

\* text arrives in slot `index`
OTP_textChange ==
    /\ mounted = "InputOTP"
    /\ \E index \in 0..(props.maxLength - 1), text \in Texts :
          Handle(InputOTP_handleTextChange(props, state, index, text),
                 [part |-> "text", index |-> index, text |-> text])

\* a key is pressed in slot `index`
OTP_keyPress ==
    /\ mounted = "InputOTP"
    /\ \E index \in 0..(props.maxLength - 1), key \in {"Backspace", "Enter"} :
          Handle(InputOTP_handleKeyPress(props, state, index, key),
                 [part |-> "key", index |-> index, key |-> key])

\* the clipboard is pasted
OTP_paste ==
    /\ mounted = "InputOTP"
    /\ \E clipboardData \in Clipboards :
          Handle(InputOTP_handlePaste(props, state, clipboardData),
                 [part |-> "paste", clipboardData |-> clipboardData])

InitOTP ==
    /\ CliOff
    /\ ToastOff
    /\ RenderOff
    /\ mounted = "InputOTP"
    /\ props \in InputOTPProps
    /\ state = InputOTP_useState(props)
    /\ effects = <<>>
    /\ presses = 0
    /\ lastPress = Part("none")
    /\ plainSinceMount = TRUE

NextOTP ==
    \/ OTP_textChange
    \/ OTP_keyPress
    \/ OTP_paste

SpecOTP == InitOTP /\ [][NextOTP]_vars

\* ------------------------------------------------------------------------
\* The value of an InputOTP: C27
\* ------------------------------------------------------------------------

\* the last handler updated the value
OTPUpdated ==
    \E i \in 1..Len(effects) : effects[i].name = "onValueChange"

\* C27: for an uncontrolled InputOTP that starts empty, after any text
\* changes, backspaces and pastes the value is at most maxLength long and
\* each of its characters matches the pattern; onComplete is invoked by an
\* update exactly when the value it leaves has length maxLength; and a typed
\* character is stored at the slot where it was entered.
C27_OTPValueWellFormed ==
    mounted = "InputOTP"
        => LET value == InputOTP_value(props, state)
           IN  /\ Len(value) <= props.maxLength
               /\ \A i \in 1..Len(value) : PATTERNS_test(props.pattern, value[i])
               /\ OTPUpdated
                    => ((\E i \in 1..Len(effects) : effects[i].name = "onComplete")
                          <=> Len(value) = props.maxLength)
               /\ (lastPress.part = "text" /\ OTPUpdated)
                    => /\ lastPress.index < Len(value)
                       /\ value[lastPress.index + 1]
                            = lastPress.text[Len(lastPress.text)]

====
